---- MODULE Spec2Model ----
\* Model of the ORCA dense-matrix engine (Mat<T>): storage core, sticky-compute
\* cache and the Gaussian-elimination kernels det / rref / rref(aug) / inv.
\* Scalars are exact rationals <<numerator, denominator>> in lowest terms.
EXTENDS Integers, Sequences, FiniteSets, TLC

\* ------------------------------------------------------------------ bounds
MaxDim == 3      \* rows and cols of a constructed matrix range over -1..MaxDim
MaxVal == 2      \* elements written by the caller range over 0..MaxVal
MaxSets == 1     \* number of set() calls that write, per matrix
MaxBlocks == 2   \* block-rows of a block literal, and blocks of a block-row
MaxBlockDim == 2 \* rows and cols of a block of a block literal
MaxFillDim == 2  \* rows and cols tried by the fill constructors range over 0..MaxFillDim
MaxLen == 3      \* longest initializer list and largest element count of a vector
MaxFullCells == 4 \* matrices of up to MaxFullCells elements are run through the kernels with every value
MaxRowOps == 2   \* number of row operations called on a matrix
MaxFairDim == 2  \* cols of the matrices whose kernel runs are followed to termination
MaxScalings == 2 \* number of scalar multiplications called on a matrix
RandSteps == 4   \* the draws of a random fill that are tried are the multiples of 1 / RandSteps

\* ------------------------------------------------- sticky-compute mask bits
ORCA_STICKY_COMPUTE_DIAG_MASK == 1
ORCA_STICKY_COMPUTE_DET_MASK == 2
ORCA_STICKY_COMPUTE_INV_MASK == 4
\* what a mask that was never assigned can hold, as far as the three bits go
MaskBits == 0..(ORCA_STICKY_COMPUTE_DIAG_MASK + ORCA_STICKY_COMPUTE_DET_MASK
                   + ORCA_STICKY_COMPUTE_INV_MASK)

\* fill specifiers
fill_zeros == 0
fill_ones == 1
fill_value == 2
fill_eye == 3
fill_rand == 4

\* ------------------------------------------------------- the scalar type T
Abs(x) == IF x < 0 THEN -x ELSE x

RECURSIVE GCD(_, _)
GCD(a, b) == IF b = 0 THEN a ELSE GCD(b, a % b)

\* the rational n/d in lowest terms with a positive denominator
Norm(n, d) ==
    LET g == GCD(Abs(n), Abs(d))
        s == IF d < 0 THEN -1 ELSE 1
    IN  <<(s * n) \div g, (s * d) \div g>>

Rat(n) == <<n, 1>>
Zero == Rat(0)
One == Rat(1)

RAdd(a, b) == Norm(a[1] * b[2] + b[1] * a[2], a[2] * b[2])
RMul(a, b) == Norm(a[1] * b[1], a[2] * b[2])
RNeg(a) == <<0 - a[1], a[2]>>
RSub(a, b) == RAdd(a, RNeg(b))
\* a / b, only used where the code has tested b != 0
RDiv(a, b) == Norm(a[1] * b[2], a[2] * b[1])

Vals == {Rat(n) : n \in 0..MaxVal}

\* ------------------------------------------------------------ storage core
\* A buffer is a function 0..rows*cols-1 -> T, row-major, as malloc'ed in
\* _allocate; shape is a record [rows, cols, mat].

BitSet(mask, bit) == (mask \div bit) % 2 = 1
OrBit(mask, bit) == IF BitSet(mask, bit) THEN mask ELSE mask + bit

\* _address: the bounds test and the pointer arithmetic
AddressThrows(m, row, col) ==
    (row > m.rows) \/ (row < 0) \/ (col > m.cols) \/ (col < 0)

Address(m, row, col) == col + (row * m.cols)

BufLen(m) == m.rows * m.cols

\* an access that is not inside the rows x cols extents of the matrix
Outside(m, row, col) == ~((0 <= row) /\ (row < m.rows) /\ (0 <= col) /\ (col < m.cols))

\* at(row, col) when _address does not throw; a read past the end of the
\* buffer yields whatever that memory holds (junk)
at(m, row, col, junk) ==
    IF Address(m, row, col) < BufLen(m) THEN m.mat[Address(m, row, col)] ELSE junk

\* the store done by set(row, col, elem) when _address does not throw; a
\* store past the end of the buffer leaves the buffer itself as it was
Store(m, row, col, elem) ==
    IF Address(m, row, col) < BufLen(m)
    THEN [m EXCEPT !.mat[Address(m, row, col)] = elem]
    ELSE m

\* ---------------------------------------------------------- fill functions
zeros(rows, cols) == [a \in 0..(rows * cols - 1) |-> Zero]

fill(rows, cols, elem) == [a \in 0..(rows * cols - 1) |-> elem]

ones(rows, cols) == fill(rows, cols, One)

eye(rows, cols) ==
    [a \in 0..(rows * cols - 1) |-> IF (a \div cols) = (a % cols) THEN One ELSE Zero]

\* ------------------------------------------------- row-operation primitives
RowOf(m, a) == a \div m.cols
ColOf(m, a) == a % m.cols

rowSwap(m, r1, r2) ==
    LET r1TempLoaded == [i \in 0..(m.cols - 1) |-> m.mat[Address(m, r1, i)]]
        step1 == [a \in DOMAIN m.mat |->
                    IF RowOf(m, a) = r1 THEN m.mat[Address(m, r2, ColOf(m, a))]
                    ELSE m.mat[a]]
        step2 == [a \in DOMAIN m.mat |->
                    IF RowOf(m, a) = r2 THEN r1TempLoaded[ColOf(m, a)]
                    ELSE step1[a]]
    IN  [m EXCEPT !.mat = step2]

rowMutliply(m, r1, t1) ==
    [m EXCEPT !.mat = [a \in DOMAIN m.mat |->
        IF RowOf(m, a) = r1 THEN RMul(t1, m.mat[a]) ELSE m.mat[a]]]

rowAdd(m, r1, r2, multiply) ==
    [m EXCEPT !.mat = [a \in DOMAIN m.mat |->
        IF RowOf(m, a) = r1
        THEN RAdd(m.mat[a], RMul(multiply, m.mat[Address(m, r2, ColOf(m, a))]))
        ELSE m.mat[a]]]

\* ------------------------------------------------------ elimination kernels
\* The pivot search shared by det / rref / rref(aug):
\*     index_t i = r;
\*     while (m.at(i,lead) == 0) { ++i; if (rows == i) { i = r; ++lead;
\*                                  if (cols == lead) return; } }
\* kind: "found" (pivot row i, column lead), "exhausted" (cols == lead),
\* "throw" (at() raised OutOfBounds).
RECURSIVE PivotSearch(_, _, _, _, _)
PivotSearch(m, r, i, lead, junk) ==
    IF AddressThrows(m, i, lead)
    THEN [kind |-> "throw", i |-> i, lead |-> lead]
    ELSE IF at(m, i, lead, junk) # Zero
    THEN [kind |-> "found", i |-> i, lead |-> lead]
    ELSE IF m.rows = i + 1
    THEN IF m.cols = lead + 1
         THEN [kind |-> "exhausted", i |-> r, lead |-> lead + 1]
         ELSE PivotSearch(m, r, r, lead + 1, junk)
    ELSE PivotSearch(m, r, i + 1, lead, junk)

\* for (i = from; i < rows; ++i) if (i != r) m.rowAdd(i, r, -m.at(i,lead));
RECURSIVE Eliminate(_, _, _, _, _)
Eliminate(m, r, i, lead, junk) ==
    IF i >= m.rows THEN m
    ELSE IF i # r
    THEN Eliminate(rowAdd(m, i, r, RNeg(at(m, i, lead, junk))), r, i + 1, lead, junk)
    ELSE Eliminate(m, r, i + 1, lead, junk)

\* diag(): the leading min(rows, cols) diagonal elements
diag(m) ==
    LET n == IF m.rows < m.cols THEN m.rows ELSE m.cols
    IN  [i \in 0..(n - 1) |-> m.mat[Address(m, i, i)]]

\* Vec::prod(): the product of the elements
RECURSIVE ProdUpTo(_, _)
ProdUpTo(v, k) == IF k < 0 THEN One ELSE RMul(ProdUpTo(v, k - 1), v[k])
prod(v) == ProdUpTo(v, Cardinality(DOMAIN v) - 1)

\* the sign applied to the multiplier after rowSwap(i, r) in det()
SwapSign(i, r) == IF ((i - r) % 2) = 0 THEN One ELSE RNeg(One)

\* The body of det() after the cache and dimension tests, on the clone.
\* kind: "done" (loop ran to the end, val is cached and returned),
\* "zero" (one of the two `return 0` statements), "throw".
\* oob: some at() read past the end of the buffer (column index == cols is let
\* through by _address, and in the last row that address is rows*cols or more).
RECURSIVE detLoop(_, _, _, _, _, _)
detLoop(m, r, lead, multiplier, junk, oob) ==
    IF r >= m.rows
    THEN [kind |-> "done", val |-> RMul(multiplier, prod(diag(m))), oob |-> oob]
    ELSE IF m.cols < lead
    THEN [kind |-> "zero", val |-> Zero, oob |-> oob]
    ELSE LET p == PivotSearch(m, r, r, lead, junk)
             seen == oob \/ (lead >= m.cols) \/ (p.lead >= m.cols /\ p.kind # "exhausted")
         IN  IF p.kind = "throw"
             THEN [kind |-> "throw", val |-> Zero, oob |-> seen]
             ELSE IF p.kind = "exhausted"
             THEN [kind |-> "zero", val |-> Zero, oob |-> seen]
             ELSE LET m1 == rowSwap(m, p.i, r)
                      mult1 == RMul(multiplier, SwapSign(p.i, r))
                      piv == at(m1, r, p.lead, junk)
                      mult2 == IF piv # Zero THEN RMul(mult1, piv) ELSE mult1
                      m2 == IF piv # Zero THEN rowMutliply(m1, r, RDiv(One, piv)) ELSE m1
                      m3 == Eliminate(m2, r, r, p.lead, junk)
                  IN  detLoop(m3, r + 1, p.lead + 1, mult2, junk, seen)

\* The body of rref() on the clone. kind: "ret" (returns m), "throw".
RECURSIVE rrefLoop(_, _, _, _, _)
rrefLoop(m, r, lead, junk, oob) ==
    IF r >= m.rows
    THEN [kind |-> "ret", m |-> m, oob |-> oob]
    ELSE IF m.cols < lead
    THEN [kind |-> "ret", m |-> m, oob |-> oob]
    ELSE LET p == PivotSearch(m, r, r, lead, junk)
             seen == oob \/ (lead >= m.cols) \/ (p.lead >= m.cols /\ p.kind # "exhausted")
         IN  IF p.kind = "throw"
             THEN [kind |-> "throw", m |-> m, oob |-> seen]
             ELSE IF p.kind = "exhausted"
             THEN [kind |-> "ret", m |-> m, oob |-> seen]
             ELSE LET m1 == rowSwap(m, p.i, r)
                      piv == at(m1, r, p.lead, junk)
                      m2 == IF piv # Zero THEN rowMutliply(m1, r, RDiv(One, piv)) ELSE m1
                      m3 == Eliminate(m2, r, 0, p.lead, junk)
                  IN  rrefLoop(m3, r + 1, p.lead + 1, junk, seen)

\* The body of rref(Mat<T> _m2): m1 is the clone of this, m2 the storage
\* _m2Clone works on. kind: "ret" (returns m2), "throw".
RECURSIVE EliminateAug(_, _, _, _, _, _)
EliminateAug(m1, m2, r, i, lead, junk) ==
    IF i >= m1.rows THEN [m1 |-> m1, m2 |-> m2]
    ELSE IF i # r
    THEN EliminateAug(rowAdd(m1, i, r, RNeg(at(m1, i, lead, junk))),
                      rowAdd(m2, i, r, RNeg(at(m1, i, lead, junk))),
                      r, i + 1, lead, junk)
    ELSE EliminateAug(m1, m2, r, i + 1, lead, junk)

RECURSIVE rrefAugLoop(_, _, _, _, _, _)
rrefAugLoop(m1, m2, r, lead, junk, oob) ==
    IF r >= m1.rows
    THEN [kind |-> "ret", m1 |-> m1, m2 |-> m2, oob |-> oob]
    ELSE IF m1.cols < lead
    THEN [kind |-> "ret", m1 |-> m1, m2 |-> m2, oob |-> oob]
    ELSE LET p == PivotSearch(m1, r, r, lead, junk)
             seen == oob \/ (lead >= m1.cols) \/ (p.lead >= m1.cols /\ p.kind # "exhausted")
         IN  IF p.kind = "throw"
             THEN [kind |-> "throw", m1 |-> m1, m2 |-> m2, oob |-> seen]
             ELSE IF p.kind = "exhausted"
             THEN [kind |-> "ret", m1 |-> m1, m2 |-> m2, oob |-> seen]
             ELSE LET s1 == IF p.i # r THEN rowSwap(m1, p.i, r) ELSE m1
                      s2 == IF p.i # r THEN rowSwap(m2, p.i, r) ELSE m2
                      piv == at(s1, r, p.lead, junk)
                      a2 == IF piv # Zero THEN rowMutliply(s2, r, RDiv(One, piv)) ELSE s2
                      a1 == IF piv # Zero THEN rowMutliply(s1, r, RDiv(One, piv)) ELSE s1
                      b2 == IF piv # Zero
                            THEN rowMutliply(a2, r, RDiv(One, at(a1, r, p.lead, junk)))
                            ELSE a2
                      e == EliminateAug(a1, b2, r, 0, p.lead, junk)
                  IN  rrefAugLoop(e.m1, e.m2, r + 1, p.lead + 1, junk, seen)

\* operator * (Mat, Mat) on operands with m1.cols = m2.rows: element (i,j) is
\* v1.at(0)*v2.at(0) + ... + v1.at(k)*v2.at(k), v1 = m1.getRow(i), v2 = m2.getCol(j)
RECURSIVE dotRes(_, _, _, _, _)
dotRes(m1, m2, i, j, k) ==
    IF k = 0 THEN RMul(m1.mat[Address(m1, i, 0)], m2.mat[Address(m2, 0, j)])
    ELSE RAdd(dotRes(m1, m2, i, j, k - 1),
              RMul(m1.mat[Address(m1, i, k)], m2.mat[Address(m2, k, j)]))

MatMul(m1, m2) ==
    [rows |-> m1.rows, cols |-> m2.cols,
     mat |-> [a \in 0..(m1.rows * m2.cols - 1) |->
                dotRes(m1, m2, a \div m2.cols, a % m2.cols, m1.cols - 1)]]

\* ------------------------------------------------------- the Mat<T> methods
\* A Mat object is [rows, cols, mat, mask, det, inv]: _n_rows, _n_cols, the
\* buffer _mat points to, _stickyComputeMask, _det and the buffer of *_inv.
\* Every method is an operator giving the object after the call (self) and
\* what the caller gets: err ("none" or the exception), val, out, oob.

NoMat == [rows |-> 0]
NoVal == <<>>
Uninit == <<>>

\* constructor from a pointer to a matrix: allocate, then copy with at/set
Clone(m) == [rows |-> m.rows, cols |-> m.cols, mat |-> m.mat]

Result(self, err, val, out, oob) ==
    [self |-> self, err |-> err, val |-> val, out |-> out, oob |-> oob, arg |-> NoVal]

\* mutant of _allocate: the empty test is made before the negative test
_allocate_EmptyFirst(rows, cols) ==
    IF (rows = 0) \/ (cols = 0) THEN "EmptyElement"
    ELSE IF (rows < 0) \/ (cols < 0) THEN "BadDimensions"
    ELSE "none"

\* _allocate(rows, cols): the exception it throws, or "none"
_allocate(rows, cols) ==
    IF (rows < 0) \/ (cols < 0) THEN "BadDimensions"
    ELSE IF (rows = 0) \/ (cols = 0) THEN "EmptyElement"
    ELSE "none"

FillOf(rows, cols, type) ==
    IF type = fill_zeros THEN zeros(rows, cols)
    ELSE IF type = fill_eye THEN eye(rows, cols)
    ELSE ones(rows, cols)

\* Mat(rows, cols, type) for every type but rand (see MatFill3)
MatFill(rows, cols, type) ==
    IF _allocate(rows, cols) # "none"
    THEN Result(NoMat, _allocate(rows, cols), NoVal, NoMat, FALSE)
    ELSE IF type \notin {fill_zeros, fill_eye, fill_ones, fill_rand}
    THEN Result(NoMat, "UnknownFillType", NoVal, NoMat, FALSE)
    ELSE Result([rows |-> rows, cols |-> cols, mat |-> FillOf(rows, cols, type),
                 mask |-> 0, det |-> Uninit, inv |-> Uninit],
                "none", NoVal, NoMat, FALSE)

\* mutant of set: the sticky-compute mask is not reset
set_KeepsMask(self, row, col, elem) ==
    IF AddressThrows(self, row, col)
    THEN Result(self, "OutOfBounds", NoVal, NoMat, FALSE)
    ELSE Result(Store(self, row, col, elem),
                "none", NoVal, NoMat, Address(self, row, col) >= BufLen(self))

\* set(row, col, elem)
set(self, row, col, elem) ==
    IF AddressThrows(self, row, col)
    THEN Result(self, "OutOfBounds", NoVal, NoMat, FALSE)
    ELSE Result([Store(self, row, col, elem) EXCEPT !.mask = 0],
                "none", NoVal, NoMat, Address(self, row, col) >= BufLen(self))

\* at(row, col) as a call
atCall(self, row, col, junk) ==
    IF AddressThrows(self, row, col)
    THEN Result(self, "OutOfBounds", NoVal, NoMat, FALSE)
    ELSE Result(self, "none", at(self, row, col, junk), NoMat,
                Address(self, row, col) >= BufLen(self))

\* d is what the elimination loop of det() ended with
detEnd(self, d) ==
    IF d.kind = "throw"
    THEN Result(self, "OutOfBounds", NoVal, NoMat, d.oob)
    ELSE IF d.kind = "zero"
    THEN Result(self, "none", Zero, NoMat, d.oob)
    ELSE Result([self EXCEPT
                   !.mask = OrBit(self.mask, ORCA_STICKY_COMPUTE_DET_MASK),
                   !.det = d.val],
                "none", d.val, NoMat, d.oob)

\* mutant of det: the dimension test is left out
det_NoDimTest(self, junk) ==
    IF BitSet(self.mask, ORCA_STICKY_COMPUTE_DET_MASK)
    THEN Result(self, "none", self.det, NoMat, FALSE)
    ELSE detEnd(self, detLoop(Clone(self), 0, 0, One, junk, FALSE))

\* det()
det(self, junk) ==
    IF BitSet(self.mask, ORCA_STICKY_COMPUTE_DET_MASK)
    THEN Result(self, "none", self.det, NoMat, FALSE)
    ELSE IF self.rows # self.cols
    THEN Result(self, "BadDimensions", NoVal, NoMat, FALSE)
    ELSE detEnd(self, detLoop(Clone(self), 0, 0, One, junk, FALSE))

\* e is what the loop of rref() ended with
rrefEnd(self, e) ==
    IF e.kind = "throw"
    THEN Result(self, "OutOfBounds", NoVal, NoMat, e.oob)
    ELSE Result(self, "none", NoVal, e.m, e.oob)

\* rref()
rref(self, junk) == rrefEnd(self, rrefLoop(Clone(self), 0, 0, junk, FALSE))

\* mutant of rrefAugEnd: the reduced clone of this is returned, not the operand
rrefAugEnd_ReturnsReduced(self, e) ==
    IF e.kind = "throw"
    THEN [Result(self, "OutOfBounds", NoVal, NoMat, e.oob) EXCEPT !.arg = e.m2.mat]
    ELSE [Result(self, "none", NoVal, e.m1, e.oob) EXCEPT !.arg = e.m2.mat]

\* rref(Mat<T> _m2): _m2 and _m2Clone are memberwise copies of the caller's
\* object, so the row operations on _m2Clone write the caller's buffer. The
\* result carries that buffer in arg: what the caller's operand holds afterwards.
rrefAugEnd(self, e) ==
    IF e.kind = "throw"
    THEN [Result(self, "OutOfBounds", NoVal, NoMat, e.oob) EXCEPT !.arg = e.m2.mat]
    ELSE [Result(self, "none", NoVal, e.m2, e.oob) EXCEPT !.arg = e.m2.mat]

rrefAug(self, m2, junk) ==
    rrefAugEnd(self, rrefAugLoop(Clone(self), Clone(m2), 0, 0, junk, FALSE))

\* inv()
\* e is what rref(eye) gave: _inv = new MatInv(e.out), or the exception
invEnd(self, e) ==
    IF e.err # "none"
    THEN Result(self, e.err, NoVal, NoMat, e.oob)
    ELSE Result([self EXCEPT
                   !.mask = OrBit(self.mask, ORCA_STICKY_COMPUTE_INV_MASK),
                   !.inv = e.out.mat],
                "none", NoVal, e.out, e.oob)

inv(self, junk) ==
    IF BitSet(self.mask, ORCA_STICKY_COMPUTE_INV_MASK)
    THEN Result(self, "none", NoVal, [rows |-> self.rows, cols |-> self.cols, mat |-> self.inv], FALSE)
    ELSE IF self.rows # self.cols
    THEN Result(self, "BadDimensions", NoVal, NoMat, FALSE)
    ELSE invEnd(self, rrefAug(self, MatFill(self.rows, self.cols, fill_eye).self, junk))

\* setRow(row, _vec): the length test, then set(row, i, _vec.at(i)) for every
\* column i; _vec is given by its elements, res is the outcome so far
RECURSIVE setRowLoop(_, _, _, _)
setRowLoop(res, row, _vec, i) ==
    IF i >= res.self.cols \/ res.err # "none"
    THEN res
    ELSE setRowLoop([set(res.self, row, i, _vec[i + 1]) EXCEPT !.oob = @ \/ res.oob],
                    row, _vec, i + 1)

setRow(self, row, _vec) ==
    IF Len(_vec) # self.cols
    THEN Result(self, "BadDimensions", NoVal, NoMat, FALSE)
    ELSE setRowLoop(Result(self, "none", NoVal, NoMat, FALSE), row, _vec, 0)

\* setCol(col, _vec): the length test, then set(i, col, _vec.at(i)) for every row i
RECURSIVE setColLoop(_, _, _, _)
setColLoop(res, col, _vec, i) ==
    IF i >= res.self.rows \/ res.err # "none"
    THEN res
    ELSE setColLoop([set(res.self, i, col, _vec[i + 1]) EXCEPT !.oob = @ \/ res.oob],
                    col, _vec, i + 1)

setCol(self, col, _vec) ==
    IF Len(_vec) # self.rows
    THEN Result(self, "BadDimensions", NoVal, NoMat, FALSE)
    ELSE setColLoop(Result(self, "none", NoVal, NoMat, FALSE), col, _vec, 0)

\* operator+(m1, m2) and operator-(m1, m2): the dimension test, then a new
\* matrix m3 filled with set(i, j, m1.at(i, j) +/- m2.at(i, j)); sign is One
\* for + and its negation for -
matSum(m1, m2, sign) ==
    IF (m1.rows # m2.rows) \/ (m1.cols # m2.cols)
    THEN Result(m1, "BadDimensions", NoVal, NoMat, FALSE)
    ELSE Result(m1, "none", NoVal,
                [rows |-> m1.rows, cols |-> m1.cols,
                 mat |-> [a \in DOMAIN m1.mat |-> RAdd(m1.mat[a], RMul(sign, m2.mat[a]))],
                 mask |-> 0, det |-> Uninit, inv |-> Uninit],
                FALSE)

\* operator+=(m1, m2): m1 = m1 + m2, and operator-=(m1, m2): m1 = m1 - m2.
\* The assignment copies the members of m3: m1 has m3's buffer and mask
Assigned(sum) == IF sum.err # "none" THEN sum ELSE [sum EXCEPT !.self = sum.out]
plusAssign(m1, m2) == Assigned(matSum(m1, m2, One))
minusAssign(m1, m2) == Assigned(matSum(m1, m2, RNeg(One)))

\* ---------------------------------------------------------- state machine
\* M     the caller's matrix object (NoMat before construction)
\* B     the caller's augmented operand during a call of rref(M, B)
\* ret   what the last call gave the caller (NoRet between calls)
\* nsets number of set() calls on M that did not throw
VARIABLES M, B, ret, nsets

vars == <<M, B, ret, nsets>>

NoRet == [op |-> "none"]

Call(op, args, res) ==
    [op |-> op, args |-> args, err |-> res.err, val |-> res.val,
     out |-> res.out, oob |-> res.oob]

Dims == -1..MaxDim
FillTypes == {fill_zeros, fill_ones, fill_eye}
AugTypes == {fill_eye, fill_ones}

Init ==
    /\ M = NoMat
    /\ B = NoMat
    /\ ret = NoRet
    /\ nsets = 0

Idle == ret = NoRet
Built == M # NoMat

\* M = Mat<T>(rows, cols, type)
Construct(rows, cols, type) ==
    /\ Idle /\ ~Built
    /\ \E res \in {MatFill(rows, cols, type)} :
           /\ M' = res.self
           /\ ret' = Call("construct", <<rows, cols, type>>, res)
    /\ UNCHANGED <<B, nsets>>

\* M.set(row, col, elem)
Set(row, col, elem) ==
    /\ Idle /\ Built
    /\ nsets < MaxSets
    /\ \E res \in {set(M, row, col, elem)} :
           /\ M' = res.self
           /\ ret' = Call("set", <<row, col, elem>>, res)
           /\ nsets' = IF res.err = "none" THEN nsets + 1 ELSE nsets
    /\ UNCHANGED B

\* M.setRow(row, _vec)
SetRow(row, _vec) ==
    /\ Idle /\ Built
    /\ nsets < MaxSets
    /\ \E res \in {setRow(M, row, _vec)} :
           /\ M' = res.self
           /\ ret' = Call("setRow", <<row, _vec>>, res)
           /\ nsets' = IF res.err = "none" THEN nsets + 1 ELSE nsets
    /\ UNCHANGED B

\* M.setCol(col, _vec)
SetCol(col, _vec) ==
    /\ Idle /\ Built
    /\ nsets < MaxSets
    /\ \E res \in {setCol(M, col, _vec)} :
           /\ M' = res.self
           /\ ret' = Call("setCol", <<col, _vec>>, res)
           /\ nsets' = IF res.err = "none" THEN nsets + 1 ELSE nsets
    /\ UNCHANGED B

\* M += Mat<T>(rows, cols, type)
PlusAssign(rows, cols, type) ==
    /\ Idle /\ Built
    /\ nsets < MaxSets
    /\ \E res \in {plusAssign(M, MatFill(rows, cols, type).self)} :
           /\ M' = res.self
           /\ ret' = Call("plusAssign", <<rows, cols, type>>, res)
           /\ nsets' = IF res.err = "none" THEN nsets + 1 ELSE nsets
    /\ UNCHANGED B

\* M -= Mat<T>(rows, cols, type)
MinusAssign(rows, cols, type) ==
    /\ Idle /\ Built
    /\ nsets < MaxSets
    /\ \E res \in {minusAssign(M, MatFill(rows, cols, type).self)} :
           /\ M' = res.self
           /\ ret' = Call("minusAssign", <<rows, cols, type>>, res)
           /\ nsets' = IF res.err = "none" THEN nsets + 1 ELSE nsets
    /\ UNCHANGED B

\* M.at(row, col)
At(row, col) ==
    /\ Idle /\ Built
    /\ \E junk \in Vals : \E res \in {atCall(M, row, col, junk)} :
             /\ M' = res.self
             /\ ret' = Call("at", <<row, col>>, res)
    /\ UNCHANGED <<B, nsets>>

\* M.det()
Det ==
    /\ Idle /\ Built
    /\ \E junk \in Vals : \E res \in {det(M, junk)} :
             /\ M' = res.self
             /\ ret' = Call("det", <<>>, res)
    /\ UNCHANGED <<B, nsets>>

\* M.inv()
Inv ==
    /\ Idle /\ Built
    /\ \E junk \in Vals : \E res \in {inv(M, junk)} :
             /\ M' = res.self
             /\ ret' = Call("inv", <<>>, res)
    /\ UNCHANGED <<B, nsets>>

\* M.rref()
Rref ==
    /\ Idle /\ Built
    /\ \E junk \in Vals : \E res \in {rref(M, junk)} :
             /\ M' = res.self
             /\ ret' = Call("rref", <<>>, res)
    /\ UNCHANGED <<B, nsets>>

\* B = Mat<T>(M.rows, M.rows, type); rref(M, B): the operand is a matrix of
\* its own, see RrefAugSelf for the call whose operand shares M's buffer
RrefAug(type) ==
    /\ Idle /\ Built
    /\ \E junk \in Vals : \E b \in {MatFill(M.rows, M.rows, type).self} :
         \E res \in {rrefAug(M, b, junk)} :
             /\ M' = res.self
             /\ B' = [b EXCEPT !.mat = res.arg]
             /\ ret' = Call("rrefAug", <<type>>, res)
    /\ UNCHANGED nsets

\* M.rref(M), or Mat<T> C = M; M.rref(C): the parameter _m2 is a memberwise
\* copy of the operand and _m2Clone = _m2 is one of _m2, so _m2Clone has M's
\* buffer and the row operations on _m2Clone are made on the elements of M.
\* Their calls of set reset the mask of _m2Clone; the mask of M stays as it is
RrefAugSelf ==
    /\ Idle /\ Built
    /\ \E junk \in Vals : \E res \in {rrefAug(M, M, junk)} :
             /\ M' = [res.self EXCEPT !.mat = res.arg]
             /\ ret' = Call("rrefAug.self", <<>>, res)
    /\ UNCHANGED <<B, nsets>>

\* the caller takes the result; the operand B goes out of scope
Return ==
    /\ ~Idle
    /\ ret' = NoRet
    /\ B' = NoMat
    /\ UNCHANGED <<M, nsets>>

\* indices the caller tries: -1, every valid one and the boundary rows / cols
RowIdx == IF Built THEN -1..M.rows ELSE {}
ColIdx == IF Built THEN -1..M.cols ELSE {}

\* the vectors handed to setRow / setCol, by their elements, and the shapes
\* of the operands of += and -=
VecArgs == UNION {[1..n -> Vals] : n \in 1..MaxDim}
OpDims == 1..MaxDim

Next ==
    \/ \E rows \in Dims, cols \in Dims, type \in FillTypes : Construct(rows, cols, type)
    \/ \E row \in RowIdx, col \in ColIdx, elem \in Vals : Set(row, col, elem)
    \/ \E row \in RowIdx, _vec \in VecArgs : SetRow(row, _vec)
    \/ \E col \in ColIdx, _vec \in VecArgs : SetCol(col, _vec)
    \/ \E rows \in OpDims, cols \in OpDims, type \in FillTypes : PlusAssign(rows, cols, type)
    \/ \E rows \in OpDims, cols \in OpDims, type \in FillTypes : MinusAssign(rows, cols, type)
    \/ \E row \in RowIdx, col \in ColIdx : At(row, col)
    \/ Det
    \/ Inv
    \/ Rref
    \/ \E type \in AugTypes : RrefAug(type)
    \/ Return

Spec == Init /\ [][Next]_vars

\* the calls of the kernels, the call of rref with M itself as the operand
\* among them
NextShared ==
    \/ \E rows \in Dims, cols \in Dims, type \in FillTypes : Construct(rows, cols, type)
    \/ \E row \in RowIdx, col \in ColIdx, elem \in Vals : Set(row, col, elem)
    \/ Det
    \/ Inv
    \/ Rref
    \/ \E type \in AugTypes : RrefAug(type)
    \/ RrefAugSelf
    \/ Return

SpecShared == Init /\ [][NextShared]_vars

\* ------------------------------------------------------------------ claims
Square(m) == m.rows = m.cols
KernelOps == {"det", "inv", "rref", "rrefAug"}

\* the values a det() that runs the elimination on the elements of m can return
FreshDet(m) ==
    {detLoop(Clone(m), 0, 0, One, junk, FALSE).val :
        junk \in {j \in Vals : detLoop(Clone(m), 0, 0, One, j, FALSE).kind # "throw"}}

\* C1: cache coherence. A set() that does not throw leaves no bit of the
\* cache mask set, and a det() that returns a value returns what the
\* elimination gives on the current elements of M, never a value that was
\* cached for other elements.
C1_CacheCoherence ==
    /\ (ret.op = "set" /\ ret.err = "none") => M.mask = 0
    /\ (ret.op = "det" /\ ret.err = "none") => ret.val \in FreshDet(M)

\* a det() after a set() returned a value different from the one still
\* stored in _det from before the set
C1_Witness ==
    /\ ret.op = "det" /\ ret.err = "none"
    /\ nsets >= 1
    /\ M.det # Uninit
    /\ ret.val # M.det

\* C2: at(row, col) and set(row, col, v) raise OutOfBounds for every index
\* outside [0, rows) x [0, cols), including row == rows and col == cols.
C2_BoundsChecked ==
    (ret.op \in {"at", "set"} /\ Outside(M, ret.args[1], ret.args[2]))
        => ret.err = "OutOfBounds"

\* C3: allocation fails with BadDimensions when an argument is negative, with
\* EmptyElement when one is zero and none negative, and otherwise gives a
\* matrix with rows > 0, cols > 0, rows*cols elements and an empty cache mask.
C3_Allocate ==
    ret.op = "construct" =>
        LET rows == ret.args[1]
            cols == ret.args[2]
        IN  /\ (rows < 0 \/ cols < 0) => (ret.err = "BadDimensions" /\ ~Built)
            /\ (rows >= 0 /\ cols >= 0 /\ (rows = 0 \/ cols = 0))
                  => (ret.err = "EmptyElement" /\ ~Built)
            /\ (rows > 0 /\ cols > 0)
                  => /\ ret.err = "none"
                     /\ M.rows = rows /\ M.cols = cols
                     /\ DOMAIN M.mat = 0..(rows * cols - 1)
                     /\ M.mask = 0

\* a zero and a negative dimension together: BadDimensions wins
C3_Witness ==
    /\ ret.op = "construct"
    /\ ret.args[1] = 0 /\ ret.args[2] = -1
    /\ ret.err = "BadDimensions"

\* C4: rref(), rref(other), det() and inv() leave the elements, rows and
\* cols of M as they were before the call, whatever matrix other is: every
\* row operation is applied to a deep clone.
C4_KernelsKeepElements ==
    [][(ret'.op \in (KernelOps \cup {"rrefAug.self"}) /\ Idle)
          => (M'.rows = M.rows /\ M'.cols = M.cols /\ M'.mat = M.mat)]_vars

\* C5: rref(self, augmented) does not modify the caller's augmented operand:
\* after a call in which every access stayed inside the buffers, the operand
\* holds the elements the caller put there.
C5_AugOperandUnchanged ==
    (ret.op = "rrefAug" /\ ~ret.oob) => B.mat = FillOf(M.rows, M.rows, ret.args[1])

\* ------------------------------------------------ reference definitions
\* element (i, j) of a matrix
Elem(m, i, j) == m.mat[i * m.cols + j]

\* the determinant by expansion along rows: DetFrom(m, r, cs) is the
\* determinant of the rows r.. of m restricted to the columns cs
RECURSIVE DetFrom(_, _, _)
RECURSIVE DetTerms(_, _, _, _)
DetTerms(m, r, cs, todo) ==
    IF todo = {} THEN Zero
    ELSE LET c == CHOOSE x \in todo : \A y \in todo : x <= y
             before == Cardinality({k \in cs : k < c})
             minor == RMul(Elem(m, r, c), DetFrom(m, r + 1, cs \ {c}))
         IN  RAdd(IF before % 2 = 0 THEN minor ELSE RNeg(minor),
                  DetTerms(m, r, cs, todo \ {c}))
DetFrom(m, r, cs) == IF cs = {} THEN One ELSE DetTerms(m, r, cs, cs)
MathDet(m) == DetFrom(m, 0, 0..(m.cols - 1))
Invertible(m) == Square(m) /\ MathDet(m) # Zero

IsEye(m) == m.mat = eye(m.rows, m.cols)
ZeroRow(m, i) == \A j \in 0..(m.cols - 1) : Elem(m, i, j) = Zero
HasZeroRow(m) == \E i \in 0..(m.rows - 1) : ZeroRow(m, i)
Lead(m, i) ==
    CHOOSE j \in 0..(m.cols - 1) :
        Elem(m, i, j) # Zero /\ \A k \in 0..(j - 1) : Elem(m, i, k) = Zero
IsRREF(m) ==
    \A i \in 0..(m.rows - 1) : ~ZeroRow(m, i) =>
        /\ Elem(m, i, Lead(m, i)) = One
        /\ \A k \in (0..(m.rows - 1)) \ {i} : Elem(m, k, Lead(m, i)) = Zero
        /\ \A k \in 0..(i - 1) : ~ZeroRow(m, k) /\ Lead(m, k) < Lead(m, i)

\* [[2,1],[1,1]] and its inverse [[1,-1],[-1,2]], row-major
Mat2111 == [a \in 0..3 |-> IF a = 0 THEN Rat(2) ELSE One]
Inv2111 == [a \in 0..3 |-> IF a = 0 THEN One ELSE IF a = 3 THEN Rat(2) ELSE RNeg(One)]

\* C6: for an invertible n x n matrix M, rref(M, eye(n)) and inv() return a
\* matrix M2 with M * M2 = eye(n); inv([[2,1],[1,1]]) = [[1,-1],[-1,2]].
C6_InverseIsRight ==
    ((ret.op = "inv" \/ (ret.op = "rrefAug" /\ ret.args[1] = fill_eye)) /\ Invertible(M))
        => /\ ret.err = "none"
           /\ IsEye(MatMul(Clone(M), ret.out))
           /\ M.mat = Mat2111 => ret.out.mat = Inv2111

\* inv() of [[2,1],[1,1]] returned [[1,-1],[-1,2]]
C6_Witness ==
    /\ ret.op = "inv" /\ ret.err = "none"
    /\ M.rows = 2 /\ M.cols = 2 /\ M.mat = Mat2111
    /\ ret.out.mat = Inv2111

\* C7: det(eye(n)) returns 1, and det of a square matrix with an all-zero
\* row returns 0 without an error and without reading outside the matrix.
C7_DetEyeAndZeroRow ==
    (ret.op = "det" /\ Square(M)) =>
        /\ IsEye(M) => (ret.err = "none" /\ ret.val = One)
        /\ HasZeroRow(M) => (ret.err = "none" /\ ret.val = Zero /\ ~ret.oob)

\* C8: for every matrix M, rref() returns a matrix and that matrix is in
\* reduced row echelon form; for an invertible M it is eye(n).
C8_RrefIsReduced ==
    ret.op = "rref" =>
        /\ ret.err = "none" /\ IsRREF(ret.out)
        /\ Invertible(M) => IsEye(ret.out)

\* C9: det() and inv() on a matrix with rows # cols fail with BadDimensions
\* and leave the elements and the cache mask as they were.
C9_NonSquareRejected ==
    [][(ret'.op \in {"det", "inv"} /\ Idle /\ ~Square(M))
          => (ret'.err = "BadDimensions" /\ M' = M)]_vars

\* det() on a non-square matrix failed with BadDimensions
C9_Witness ==
    /\ ret.op = "det" /\ ret.err = "BadDimensions"
    /\ ~Square(M) /\ M.mask = 0

\* C10: whenever det() returns a value without error, zero included, the
\* determinant bit of the mask is set and the stored determinant is the
\* returned value.
C10_DetIsCached ==
    (ret.op = "det" /\ ret.err = "none")
        => (BitSet(M.mask, ORCA_STICKY_COMPUTE_DET_MASK) /\ M.det = ret.val)

\* ------------------------------------------------------------------ views
\* A view object holds a pointer to its parent (here: the parent object, the
\* view being used while the parent is unchanged) and its own extents.

\* Mat(std::initializer_list<std::initializer_list<T>>): list is a non-empty
\* sequence of rows
MatList(list) ==
    IF _allocate(Len(list), Len(list[1])) # "none"
    THEN Result(NoMat, _allocate(Len(list), Len(list[1])), NoVal, NoMat, FALSE)
    ELSE IF \E i \in 1..Len(list) : Len(list[i]) # Len(list[1])
    THEN Result(NoMat, "BadDimensions", NoVal, NoMat, FALSE)
    ELSE Result([rows |-> Len(list), cols |-> Len(list[1]),
                 mat |-> [a \in 0..(Len(list) * Len(list[1]) - 1) |->
                            list[(a \div Len(list[1])) + 1][(a % Len(list[1])) + 1]],
                 mask |-> 0, det |-> Uninit, inv |-> Uninit],
                "none", NoVal, NoMat, FALSE)

\* MatTr(matrix) of the earlier revision of the class: _n_cols is assigned
\* matrix->cols() and _n_rows is assigned matrix->rows(); at(row, col) is
\* _matrix->at(col, row) as in the later one
MatTr_part002(matrix) ==
    [class |-> "MatTr", matrix |-> matrix, rows |-> matrix.rows, cols |-> matrix.cols]

\* MatTr(matrix): _n_cols is assigned matrix->rows() and _n_rows matrix->cols()
MatTr(matrix) ==
    [class |-> "MatTr", matrix |-> matrix, rows |-> matrix.cols, cols |-> matrix.rows]

\* t()
t(self) == MatTr(self)

\* mutant of SubMat: the extents are r2 - r1 and c2 - c1
SubMat_ShortExtents(matrix, r1, r2, c1, c2) ==
    [class |-> "SubMat", matrix |-> matrix, rows |-> r2 - r1, cols |-> c2 - c1,
     r1 |-> r1, r2 |-> r2, c1 |-> c1, c2 |-> c2]

\* SubMat(matrix, r1, r2, c1, c2) once the dimension test has passed
SubMat(matrix, r1, r2, c1, c2) ==
    [class |-> "SubMat", matrix |-> matrix, rows |-> r2 - r1 + 1, cols |-> c2 - c1 + 1,
     r1 |-> r1, r2 |-> r2, c1 |-> c1, c2 |-> c2]

\* the dimension test of the SubMat constructor
SubMatThrows(r1, r2, c1, c2) == (r2 < r1) \/ (c2 < c1)

\* range(row1, row2, col1, col2)
range(self, row1, row2, col1, col2) == SubMat(self, row1, row2, col1, col2)

\* the bounds test of SubMat::at
SubMatAtThrows(v, row, col) ==
    (row < 0) \/ (row > v.rows) \/ (col < 0) \/ (col > v.cols)

\* the class of an object: views carry it, a Mat is the base class
ClassOf(obj) == IF "class" \in DOMAIN obj THEN obj.class ELSE "Mat"

\* the virtual at(row, col): MatTr::at, SubMat::at or Mat::at
RECURSIVE atVirtual(_, _, _, _)
atVirtual(obj, row, col, junk) ==
    IF ClassOf(obj) = "MatTr"
    THEN atVirtual(obj.matrix, col, row, junk)
    ELSE IF ClassOf(obj) = "SubMat"
    THEN IF SubMatAtThrows(obj, row, col)
         THEN Result(obj, "OutOfBounds", NoVal, NoMat, FALSE)
         ELSE atVirtual(obj.matrix, row + obj.r1, col + obj.c1, junk)
    ELSE atCall(obj, row, col, junk)

\* what the caller sees of a view and of an access into it
Extents(v) == [rows |-> v.rows, cols |-> v.cols]
ViewAt(v, row, col, junk) ==
    [atVirtual(v, row, col, junk) EXCEPT !.out = Extents(v)]

\* the literal {{1,..,cols},{cols+1,..},..}; with ragged its last row lacks
\* the last element
Counting(rows, cols, ragged) ==
    [i \in 1..rows |->
        [j \in 1..(IF ragged /\ i = rows /\ rows > 1 THEN cols - 1 ELSE cols) |->
            Rat((i - 1) * cols + j)]]

\* M = Mat<T>({{..},..})
ConstructList(rows, cols, ragged) ==
    /\ Idle /\ ~Built
    /\ \E res \in {MatList(Counting(rows, cols, ragged))} :
           /\ M' = res.self
           /\ ret' = Call("list", <<rows, cols, ragged>>, res)
    /\ UNCHANGED <<B, nsets>>

\* M.t().at(row, col)
TrAt(row, col) ==
    /\ Idle /\ Built
    /\ \E junk \in Vals : \E res \in {ViewAt(t(M), row, col, junk)} :
           ret' = Call("t.at", <<row, col>>, res)
    /\ UNCHANGED <<M, B, nsets>>

\* M.t().at(row, col) with the earlier revision of the class
TrAt_part002(row, col) ==
    /\ Idle /\ Built
    /\ \E junk \in Vals : \E res \in {ViewAt(MatTr_part002(M), row, col, junk)} :
           ret' = Call("t.at.part_002", <<row, col>>, res)
    /\ UNCHANGED <<M, B, nsets>>

\* M.t().t().at(row, col)
TrTrAt(row, col) ==
    /\ Idle /\ Built
    /\ \E junk \in Vals : \E res \in {ViewAt(t(t(M)), row, col, junk)} :
           ret' = Call("t.t.at", <<row, col>>, res)
    /\ UNCHANGED <<M, B, nsets>>


\* self.range(r1, r2, c1, c2).at(row, col)
rangeAt(self, r1, r2, c1, c2, row, col, junk) ==
    IF SubMatThrows(r1, r2, c1, c2)
    THEN Result(self, "BadDimensions", NoVal, NoMat, FALSE)
    ELSE ViewAt(range(self, r1, r2, c1, c2), row, col, junk)

\* mutant of CastReads: the parent is read at the view's own indices
CastReads_ParentIndex(v, junk) ==
    [a \in {b \in 0..(v.rows * v.cols - 1) :
               \A c \in 0..(b - 1) :
                   atVirtual(v.matrix, c \div v.cols, c % v.cols, junk).err = "none"} |->
        atVirtual(v.matrix, a \div v.cols, a % v.cols, junk)]

\* the reads _castM.at(i, j) of a copying constructor, row-major: the loops
\* end with the first read that throws, which is then the last one made
CastReads(v, junk) ==
    [a \in {b \in 0..(v.rows * v.cols - 1) :
               \A c \in 0..(b - 1) :
                   atVirtual(v, c \div v.cols, c % v.cols, junk).err = "none"} |->
        atVirtual(v, a \div v.cols, a % v.cols, junk)]

\* Mat(SubMat _castM) / Mat(MatTr _castM): allocate, then set(i, j, _castM.at(i, j));
\* reads is what the calls of _castM.at gave
MatCastOf(v, reads) ==
    IF \E a \in DOMAIN reads : reads[a].err # "none"
    THEN Result(NoMat, "OutOfBounds", NoVal, NoMat, \E a \in DOMAIN reads : reads[a].oob)
    ELSE Result([rows |-> v.rows, cols |-> v.cols,
                 mat |-> [a \in DOMAIN reads |-> reads[a].val],
                 mask |-> 0, det |-> Uninit, inv |-> Uninit],
                "none", NoVal, NoMat, \E a \in DOMAIN reads : reads[a].oob)

MatCast(v, junk) ==
    IF _allocate(v.rows, v.cols) # "none"
    THEN Result(NoMat, _allocate(v.rows, v.cols), NoVal, NoMat, FALSE)
    ELSE MatCastOf(v, CastReads(v, junk))

\* Mat<T> N = self.range(r1, r2, c1, c2)
rangeMat(self, r1, r2, c1, c2, junk) ==
    IF SubMatThrows(r1, r2, c1, c2)
    THEN Result(NoMat, "BadDimensions", NoVal, NoMat, FALSE)
    ELSE MatCast(range(self, r1, r2, c1, c2), junk)

\* indices tried on a view
ViewIdx == -1..MaxDim
\* range bounds tried on M: every row / column and one past the last
RowBnd == IF Built THEN 0..M.rows ELSE {}
ColBnd == IF Built THEN 0..M.cols ELSE {}
\* range bounds tried by the copying constructor: one more, where a read of
\* the view throws
CastRowBnd == IF Built THEN 0..(M.rows + 1) ELSE {}
CastColBnd == IF Built THEN 0..(M.cols + 1) ELSE {}

\* M.range(r1, r2, c1, c2).at(row, col)
RangeAt(r1, r2, c1, c2, row, col) ==
    /\ Idle /\ Built
    /\ \E junk \in Vals : \E res \in {rangeAt(M, r1, r2, c1, c2, row, col, junk)} :
           ret' = Call("range.at", <<r1, r2, c1, c2, row, col>>, res)
    /\ UNCHANGED <<M, B, nsets>>

\* B = Mat<T>(M.range(r1, r2, c1, c2))
RangeMat(r1, r2, c1, c2) ==
    /\ Idle /\ Built /\ B = NoMat
    /\ \E junk \in Vals : \E res \in {rangeMat(M, r1, r2, c1, c2, junk)} :
           /\ B' = res.self
           /\ ret' = Call("rangeMat", <<r1, r2, c1, c2>>, res)
    /\ UNCHANGED <<M, nsets>>

\* B.set(row, col, elem) on the matrix RangeMat gave: B owns the buffer
\* _allocate gave it, M is not written
SetB(row, col, elem) ==
    /\ ret.op = "rangeMat" /\ B # NoMat
    /\ nsets < MaxSets
    /\ \E res \in {set(B, row, col, elem)} :
           /\ B' = res.self
           /\ ret' = Call("setB", <<row, col, elem>>, res)
           /\ nsets' = IF res.err = "none" THEN nsets + 1 ELSE nsets
    /\ UNCHANGED M

\* ------------------------------------------------ row / column projections
\* the bounds tests of getRow(row) and getCol(col)
getRowThrows(self, row) == (row > self.rows) \/ (row < 0)
getColThrows(self, col) == (col > self.cols) \/ (col < 0)

\* MatRow(matrix, row) and MatCol(matrix, col), the pointer constructors
MatRow(matrix, row) ==
    [class |-> "MatRow", matrix |-> matrix, row |-> row,
     n_elems |-> matrix.cols, cols |-> matrix.cols, rows |-> 1]
MatCol(matrix, col) ==
    [class |-> "MatCol", matrix |-> matrix, col |-> col,
     n_elems |-> matrix.rows, cols |-> 1, rows |-> matrix.rows]

\* MatRow::at(index) and MatRow::at(row, col)
MatRow_at(v, index, junk) == atVirtual(v.matrix, v.row, index, junk)
MatRow_at2(v, row, col, junk) == atVirtual(v.matrix, v.row, col, junk)

\* MatCol::at(index) and MatCol::at(row, col)
MatCol_at(v, index, junk) == atVirtual(v.matrix, index, v.col, junk)
MatCol_at2(v, row, col, junk) == atVirtual(v.matrix, v.col, row, junk)

\* self.getRow(r).at(index), self.getRow(r).at(row, col) and the same on getCol(c)
getRowAt(self, r, index, junk) ==
    IF getRowThrows(self, r) THEN Result(self, "OutOfBounds", NoVal, NoMat, FALSE)
    ELSE MatRow_at(MatRow(self, r), index, junk)
getRowAt2(self, r, row, col, junk) ==
    IF getRowThrows(self, r) THEN Result(self, "OutOfBounds", NoVal, NoMat, FALSE)
    ELSE MatRow_at2(MatRow(self, r), row, col, junk)
getColAt(self, c, index, junk) ==
    IF getColThrows(self, c) THEN Result(self, "OutOfBounds", NoVal, NoMat, FALSE)
    ELSE MatCol_at(MatCol(self, c), index, junk)
getColAt2(self, c, row, col, junk) ==
    IF getColThrows(self, c) THEN Result(self, "OutOfBounds", NoVal, NoMat, FALSE)
    ELSE MatCol_at2(MatCol(self, c), row, col, junk)

\* M.getRow(r).at(index)
RowAt(r, index) ==
    /\ Idle /\ Built
    /\ \E junk \in Vals : \E res \in {getRowAt(M, r, index, junk)} :
           ret' = Call("getRow.at", <<r, index>>, res)
    /\ UNCHANGED <<M, B, nsets>>

\* M.getRow(r).at(row, col)
RowAt2(r, row, col) ==
    /\ Idle /\ Built
    /\ \E junk \in Vals : \E res \in {getRowAt2(M, r, row, col, junk)} :
           ret' = Call("getRow.at2", <<r, row, col>>, res)
    /\ UNCHANGED <<M, B, nsets>>

\* M.getCol(c).at(index)
ColAt(c, index) ==
    /\ Idle /\ Built
    /\ \E junk \in Vals : \E res \in {getColAt(M, c, index, junk)} :
           ret' = Call("getCol.at", <<c, index>>, res)
    /\ UNCHANGED <<M, B, nsets>>

\* M.getCol(c).at(row, col)
ColAt2(c, row, col) ==
    /\ Idle /\ Built
    /\ \E junk \in Vals : \E res \in {getColAt2(M, c, row, col, junk)} :
           ret' = Call("getCol.at2", <<c, row, col>>, res)
    /\ UNCHANGED <<M, B, nsets>>

\* the elements of the materialized matrix the caller writes
BRows == IF B # NoMat THEN 0..(B.rows - 1) ELSE {}
BCols == IF B # NoMat THEN 0..(B.cols - 1) ELSE {}

\* the views of a matrix built from a literal
ListDims == 1..MaxDim
NextViews ==
    \/ \E rows \in ListDims, cols \in ListDims, ragged \in BOOLEAN :
          ConstructList(rows, cols, ragged)
    \/ \E row \in ViewIdx, col \in ViewIdx : TrAt(row, col)
    \/ \E row \in ViewIdx, col \in ViewIdx : TrAt_part002(row, col)
    \/ \E row \in ViewIdx, col \in ViewIdx : TrTrAt(row, col)
    \/ \E r1 \in RowBnd, r2 \in RowBnd, c1 \in ColBnd, c2 \in ColBnd :
          \E row \in ViewIdx, col \in ViewIdx : RangeAt(r1, r2, c1, c2, row, col)
    \/ \E r1 \in CastRowBnd, r2 \in CastRowBnd, c1 \in CastColBnd, c2 \in CastColBnd :
          RangeMat(r1, r2, c1, c2)
    \/ \E row \in BRows, col \in BCols, elem \in Vals : SetB(row, col, elem)
    \/ \E r \in RowBnd, index \in ViewIdx : RowAt(r, index)
    \/ \E r \in RowBnd, row \in ViewIdx, col \in ViewIdx : RowAt2(r, row, col)
    \/ \E c \in ColBnd, index \in ViewIdx : ColAt(c, index)
    \/ \E c \in ColBnd, row \in ViewIdx, col \in ViewIdx : ColAt2(c, row, col)
    \/ Return

SpecViews == Init /\ [][NextViews]_vars

\* ------------------------------------------------------- claims on views
InExtents(rows, cols, row, col) == (0 <= row) /\ (row < rows) /\ (0 <= col) /\ (col < cols)

\* C11: t(M) has rows = M.cols and cols = M.rows and t(M).at(r,c) = M.at(c,r)
\* for every valid (r,c); t(t(M)).at(r,c) = M.at(r,c) for every valid index of M.
C11_Transpose ==
    /\ ret.op \in {"t.at", "t.at.part_002"} =>
          /\ ret.out = [rows |-> M.cols, cols |-> M.rows]
          /\ InExtents(M.cols, M.rows, ret.args[1], ret.args[2])
                => (ret.err = "none" /\ ret.val = Elem(M, ret.args[2], ret.args[1]))
    /\ ret.op = "t.t.at" =>
          /\ ret.out = [rows |-> M.rows, cols |-> M.cols]
          /\ InExtents(M.rows, M.cols, ret.args[1], ret.args[2])
                => (ret.err = "none" /\ ret.val = Elem(M, ret.args[1], ret.args[2]))

\* C12: at(r,c) on a sub-range view with n rows and m cols raises OutOfBounds
\* for every r outside [0,n) or c outside [0,m), r = n and c = m included
\* (stated for the accesses that stay inside the parent's buffer).
C12_ViewBoundsChecked ==
    (/\ ret.op = "range.at" /\ ~ret.oob
     /\ ~SubMatThrows(ret.args[1], ret.args[2], ret.args[3], ret.args[4])
     /\ ~InExtents(ret.out.rows, ret.out.cols, ret.args[5], ret.args[6]))
        => ret.err = "OutOfBounds"

\* C13: range(r1,r2,c1,c2) fails with BadDimensions when r2 < r1 or c2 < c1,
\* otherwise the view has r2-r1+1 rows and c2-c1+1 cols; for r1 = r2 and
\* c1 = c2 it is 1x1 and its element is parent.at(r1,c1).
C13_SubRange ==
    ret.op \in {"range.at", "rangeMat"} =>
        LET r1 == ret.args[1]
            r2 == ret.args[2]
            c1 == ret.args[3]
            c2 == ret.args[4]
        IN  /\ (r2 < r1 \/ c2 < c1) => ret.err = "BadDimensions"
            /\ (~(r2 < r1 \/ c2 < c1) /\ ret.op = "range.at") =>
                  /\ ret.err # "BadDimensions"
                  /\ ret.out = [rows |-> r2 - r1 + 1, cols |-> c2 - c1 + 1]
                  /\ (r1 = r2 /\ c1 = c2 /\ InExtents(M.rows, M.cols, r1, c1)
                        /\ ret.args[5] = 0 /\ ret.args[6] = 0)
                       => (ret.out = [rows |-> 1, cols |-> 1]
                           /\ ret.err = "none" /\ ret.val = Elem(M, r1, c1))

\* the element of a 1x1 view away from the corner of the parent was read
C13_Witness ==
    /\ ret.op = "range.at" /\ ret.err = "none"
    /\ ret.args[1] = 1 /\ ret.args[2] = 1 /\ ret.args[3] = 2 /\ ret.args[4] = 2
    /\ ret.args[5] = 0 /\ ret.args[6] = 0
    /\ ret.out = [rows |-> 1, cols |-> 1]
    /\ InExtents(M.rows, M.cols, 1, 2)
    /\ ret.val = Elem(M, 1, 2)

\* the block of M in rows r1..r2 and columns c1..c2, row-major
BlockOf(m, r1, r2, c1, c2) ==
    [a \in 0..((r2 - r1 + 1) * (c2 - c1 + 1) - 1) |->
        Elem(m, (a \div (c2 - c1 + 1)) + r1, (a % (c2 - c1 + 1)) + c1)]

\* C14: for r1 <= r2 < rows and c1 <= c2 < cols the matrix constructed from
\* range(r1,r2,c1,c2) has (r2-r1+1) x (c2-c1+1) elements, element (i,j) being
\* M.at(i+r1, j+c1), and a later set on that matrix does not change M.
C14_Materialize ==
    [][/\ (/\ ret'.op = "rangeMat"
           /\ ret'.args[1] <= ret'.args[2] /\ ret'.args[2] < M.rows
           /\ ret'.args[3] <= ret'.args[4] /\ ret'.args[4] < M.cols)
          => /\ ret'.err = "none"
             /\ B'.rows = ret'.args[2] - ret'.args[1] + 1
             /\ B'.cols = ret'.args[4] - ret'.args[3] + 1
             /\ B'.mat = BlockOf(M, ret'.args[1], ret'.args[2], ret'.args[3], ret'.args[4])
             /\ M' = M
       /\ ret'.op = "setB" => M' = M]_vars

\* an element of the matrix made from an inner 2x2 block of a 3x3 matrix was
\* set to a value the parent does not hold there
C14_Witness ==
    /\ ret.op = "setB" /\ ret.err = "none"
    /\ M.rows = 3 /\ M.cols = 3
    /\ B.rows = 2 /\ B.cols = 2
    /\ B.mat[3] = Elem(M, 2, 2)
    /\ Elem(B, 0, 0) = Zero

\* C15: on get_row(r), at(i) and at(0,i) are parent.at(r,i); on get_col(c),
\* at(i) and at(i,0) are parent.at(i,c); an access whose fixed coordinate is
\* not 0 raises OutOfBounds.
C15_Projections ==
    /\ (ret.op = "getRow.at" /\ InExtents(M.rows, M.cols, ret.args[1], ret.args[2]))
          => (ret.err = "none" /\ ret.val = Elem(M, ret.args[1], ret.args[2]))
    /\ (ret.op = "getCol.at" /\ InExtents(M.rows, M.cols, ret.args[2], ret.args[1]))
          => (ret.err = "none" /\ ret.val = Elem(M, ret.args[2], ret.args[1]))
    /\ (ret.op = "getRow.at2" /\ InExtents(M.rows, M.cols, ret.args[1], ret.args[3]))
          => IF ret.args[2] = 0
             THEN ret.err = "none" /\ ret.val = Elem(M, ret.args[1], ret.args[3])
             ELSE ret.err = "OutOfBounds"
    /\ (ret.op = "getCol.at2" /\ InExtents(M.rows, M.cols, ret.args[2], ret.args[1]))
          => IF ret.args[3] = 0
             THEN ret.err = "none" /\ ret.val = Elem(M, ret.args[2], ret.args[1])
             ELSE ret.err = "OutOfBounds"

\* --------------------------------------------------------- operator * (Mat, Mat)
ORCA_BAD_DIMENSIONS == 5
ORCA_EMPTY_ELEMENT == 4

\* dotRes after the terms 0..k of row i of m1 and column j of m2:
\* v1.at(k) is m1.at(i, k), v2.at(k) is m2.at(k, j)
RECURSIVE dotResAt(_, _, _, _, _, _)
dotResAt(m1, m2, i, j, k, junk) ==
    IF k = 0 THEN RMul(at(m1, i, 0, junk), at(m2, 0, j, junk))
    ELSE RAdd(dotResAt(m1, m2, i, j, k - 1, junk),
              RMul(at(m1, i, k, junk), at(m2, k, j, junk)))

\* some v2.at(k), k < v1.length(), is refused by _address of m2
mulThrows(m1, m2) ==
    \E k \in 0..(m1.cols - 1), j \in 0..(m2.cols - 1) : AddressThrows(m2, k, j)

\* some v2.at(k) reads past the end of the buffer of m2
mulReadsPast(m1, m2) ==
    \E k \in 0..(m1.cols - 1), j \in 0..(m2.cols - 1) :
        ~AddressThrows(m2, k, j) /\ Address(m2, k, j) >= BufLen(m2)

\* the value errno has after the two tests at the head of operator *
mulErrno(m1, m2) ==
    IF m1.rows = 0 \/ m1.cols = 0 \/ m2.rows = 0 \/ m2.cols = 0 THEN ORCA_EMPTY_ELEMENT
    ELSE IF m1.cols # m2.rows THEN ORCA_BAD_DIMENSIONS
    ELSE 0

\* operator * (m1, m2) on allocated operands: val is errno (0: not set)
mul(m1, m2, junk) ==
    IF mulThrows(m1, m2)
    THEN Result(m1, "OutOfBounds", mulErrno(m1, m2), NoMat, mulReadsPast(m1, m2))
    ELSE Result(m1, "none", mulErrno(m1, m2),
                [rows |-> m1.rows, cols |-> m2.cols,
                 mat |-> [a \in 0..(m1.rows * m2.cols - 1) |->
                            dotResAt(m1, m2, a \div m2.cols, a % m2.cols, m1.cols - 1, junk)]],
                mulReadsPast(m1, m2))

\* shapes of the right operand
OperandDims == 1..MaxDim

\* B = Mat<T>(rows, cols, type); M * B
Mul(rows, cols, type) ==
    /\ Idle /\ Built
    /\ \E junk \in Vals : \E b \in {MatFill(rows, cols, type).self} :
         \E res \in {mul(M, b, junk)} :
             /\ B' = b
             /\ ret' = Call("mul", <<rows, cols, type>>, res)
    /\ UNCHANGED <<M, nsets>>

NextMul ==
    \/ \E rows \in Dims, cols \in Dims, type \in FillTypes : Construct(rows, cols, type)
    \/ \E row \in RowIdx, col \in ColIdx, elem \in Vals : Set(row, col, elem)
    \/ \E rows \in OperandDims, cols \in OperandDims, type \in FillTypes : Mul(rows, cols, type)
    \/ Return

SpecMul == Init /\ [][NextMul]_vars

\* C16: m1 * m2 with m1.cols # m2.rows fails with BadDimensions: no result
\* matrix is returned and no element is read past the extents of an operand.
C16_MulRejectsMismatch ==
    (ret.op = "mul" /\ M.cols # B.rows)
        => (ret.err = "BadDimensions" /\ ret.out = NoMat /\ ~ret.oob)

\* ------------------------------------------- block-matrix literal constructor
\* A literal is a sequence of block-rows, each a sequence of blocks (matrices).

\* x[1] + ... + x[n]
RECURSIVE SumTo(_, _)
SumTo(x, n) == IF n = 0 THEN 0 ELSE SumTo(x, n - 1) + x[n]

\* colNum: the columns of the blocks of the first block-row
blockColNum(list) == SumTo([j \in 1..Len(list[1]) |-> list[1][j].cols], Len(list[1]))

\* rowNum: the rows of the first block of every block-row
blockRowNum(list) == SumTo([i \in 1..Len(list) |-> list[i][1].rows], Len(list))

\* the two dimension tests of the first loop
blockThrows(list) ==
    \E i \in 1..Len(list) :
        \/ \E j \in 1..Len(list[i]) : list[i][j].rows # list[i][1].rows
        \/ SumTo([j \in 1..Len(list[i]) |-> list[i][j].cols], Len(list[i])) # blockColNum(list)

\* rowStart when block-row i is copied, colStart when its block j is copied
\* (colStart += M.rows() after each block)
rowStart(list, i) == SumTo([k \in 1..Len(list) |-> list[k][1].rows], i - 1)
colStart(list, i, j) == SumTo([k \in 1..Len(list[i]) |-> list[i][k].rows], j - 1)

\* the calls this->set(row, col, elem) of the copy loops; ord is the position
\* of the call in the order of the loops
blockSets(list) ==
    UNION {UNION {{[ord |-> <<i, j, a, b>>,
                    row |-> rowStart(list, i) + a,
                    col |-> colStart(list, i, j) + b,
                    elem |-> list[i][j].mat[a * list[i][j].cols + b]] :
                      a \in 0..(list[i][j].rows - 1), b \in 0..(list[i][j].cols - 1)} :
                  j \in 1..Len(list[i])} :
           i \in 1..Len(list)}

\* call o1 comes before call o2
Before(o1, o2) ==
    \/ o1[1] < o2[1]
    \/ o1[1] = o2[1] /\ o1[2] < o2[2]
    \/ o1[1] = o2[1] /\ o1[2] = o2[2] /\ o1[3] < o2[3]
    \/ o1[1] = o2[1] /\ o1[2] = o2[2] /\ o1[3] = o2[3] /\ o1[4] < o2[4]

\* the buffer after the calls in sets on an allocated, not yet written
\* rows x cols matrix: the last store to an address stays, an address never
\* stored to holds what malloc left there (junk)
blockBuffer(rows, cols, sets, junk) ==
    [x \in 0..(rows * cols - 1) |->
        IF \E w \in sets : w.col + w.row * cols = x
        THEN (CHOOSE w \in sets :
                 /\ w.col + w.row * cols = x
                 /\ \A v \in sets : (v.col + v.row * cols = x /\ v # w) => Before(v.ord, w.ord)).elem
        ELSE junk]

\* set(row, col, elem) throws
setThrows(rows, cols, w) == (w.row > rows) \/ (w.col > cols)

\* the calls made before the first one that throws
blockDone(rows, cols, sets) ==
    {w \in sets : ~\E v \in sets : setThrows(rows, cols, v) /\ (v = w \/ Before(v.ord, w.ord))}

\* some call stores past the end of the buffer
blockWritesPast(rows, cols, sets) ==
    \E w \in blockDone(rows, cols, sets) : w.col + w.row * cols >= rows * cols

\* the copy loops on the allocated rows x cols matrix
blockCopy(rows, cols, sets, junk) ==
    IF \E w \in sets : setThrows(rows, cols, w)
    THEN Result(NoMat, "OutOfBounds", NoVal, NoMat, blockWritesPast(rows, cols, sets))
    ELSE Result([rows |-> rows, cols |-> cols,
                 mat |-> blockBuffer(rows, cols, sets, junk),
                 mask |-> 0, det |-> Uninit, inv |-> Uninit],
                "none", NoVal, NoMat, blockWritesPast(rows, cols, sets))

\* Mat(std::initializer_list<std::initializer_list<Mat<T1>>>)
MatBlocks(list, junk) ==
    IF blockThrows(list)
    THEN Result(NoMat, "BadDimensions", NoVal, NoMat, FALSE)
    ELSE IF _allocate(blockRowNum(list), blockColNum(list)) # "none"
    THEN Result(NoMat, _allocate(blockRowNum(list), blockColNum(list)), NoVal, NoMat, FALSE)
    ELSE blockCopy(blockRowNum(list), blockColNum(list), blockSets(list), junk)

\* the literals tried: up to MaxBlocks block-rows of up to MaxBlocks blocks,
\* each block up to MaxBlockDim x MaxBlockDim
Shapes == (1..MaxBlockDim) \X (1..MaxBlockDim)
BlockRows == UNION {[1..n -> Shapes] : n \in 1..MaxBlocks}
Literals == UNION {[1..n -> BlockRows] : n \in 1..MaxBlocks}

\* the block at block-row i, block-column j: its elements are told apart from
\* those of every other block and from each other
BlockMat(i, j, shape) ==
    [rows |-> shape[1], cols |-> shape[2],
     mat |-> [x \in 0..(shape[1] * shape[2] - 1) |-> Rat(1000 * i + 100 * j + x + 1)]]

BlocksOf(lit) == [i \in 1..Len(lit) |-> [j \in 1..Len(lit[i]) |-> BlockMat(i, j, lit[i][j])]]

\* M = Mat<T>({{A, B, ..}, ..})
BlockConstruct(lit) ==
    /\ Idle /\ ~Built
    /\ \E junk \in Vals : \E res \in {MatBlocks(BlocksOf(lit), junk)} :
           /\ M' = res.self
           /\ ret' = Call("blocks", <<lit>>, res)
    /\ UNCHANGED <<B, nsets>>

NextBlocks ==
    \/ \E lit \in Literals : BlockConstruct(lit)
    \/ Return

SpecBlocks == Init /\ [][NextBlocks]_vars

\* the literal passes validation: the blocks of a block-row have the same row
\* count and every block-row has the same total column count
ShapeCols(lit, i, n) == SumTo([j \in 1..Len(lit[i]) |-> lit[i][j][2]], n)
ShapeRows(lit, n) == SumTo([i \in 1..Len(lit) |-> lit[i][1][1]], n)
ValidLiteral(lit) ==
    \A i \in 1..Len(lit) :
        /\ \A j \in 1..Len(lit[i]) : lit[i][j][1] = lit[i][1][1]
        /\ ShapeCols(lit, i, Len(lit[i])) = ShapeCols(lit, 1, Len(lit[1]))

\* C17: for a block literal that passes validation, element (a,b) of block
\* (i,j) is in the result at row (rows of the block-rows before i) + a and
\* column (columns of the blocks before j in block-row i) + b, for blocks of
\* any shape, and every element of the result is written exactly once.
C17_BlocksPlaced ==
    (ret.op = "blocks" /\ ValidLiteral(ret.args[1])) =>
        /\ ret.err = "none" /\ ~ret.oob
        /\ M.rows = ShapeRows(ret.args[1], Len(ret.args[1]))
        /\ M.cols = ShapeCols(ret.args[1], 1, Len(ret.args[1][1]))
        /\ \A i \in 1..Len(ret.args[1]) : \A j \in 1..Len(ret.args[1][i]) :
             \A a \in 0..(ret.args[1][i][j][1] - 1), b \in 0..(ret.args[1][i][j][2] - 1) :
                Elem(M, ShapeRows(ret.args[1], i - 1) + a,
                        ShapeCols(ret.args[1], i, j - 1) + b)
                  = BlockMat(i, j, ret.args[1][i][j]).mat[a * ret.args[1][i][j][2] + b]

\* ------------------------------------------------------- fill constructors
ORCA_UNKNOWN_FILL_TYPE == 6

\* an object that was allocated and has its elements given by mat
Allocated(rows, cols, mat) ==
    [rows |-> rows, cols |-> cols, mat |-> mat, mask |-> 0, det |-> Uninit, inv |-> Uninit]

\* Mat(rows, cols, type): rnd is what the generator of randFill(0, 1) gives
MatFill3(rows, cols, type, rnd) ==
    IF _allocate(rows, cols) = "none" /\ type = fill_rand
    THEN Result(Allocated(rows, cols, rnd), "none", NoVal, NoMat, FALSE)
    ELSE MatFill(rows, cols, type)

\* Mat(rows, cols, type, elem)
MatFillValue(rows, cols, type, elem) ==
    IF _allocate(rows, cols) # "none"
    THEN Result(NoMat, _allocate(rows, cols), NoVal, NoMat, FALSE)
    ELSE IF type = fill_value
    THEN Result(Allocated(rows, cols, fill(rows, cols, elem)), "none", NoVal, NoMat, FALSE)
    ELSE Result(NoMat, "UnknownFillType", NoVal, NoMat, FALSE)

\* Mat(rows, cols, type, randLower, randUpper)
MatFillRand(rows, cols, type, rnd) ==
    IF _allocate(rows, cols) # "none"
    THEN Result(NoMat, _allocate(rows, cols), NoVal, NoMat, FALSE)
    ELSE IF type = fill_rand
    THEN Result(Allocated(rows, cols, rnd), "none", NoVal, NoMat, FALSE)
    ELSE Result(NoMat, "UnknownFillType", NoVal, NoMat, FALSE)

\* The same two constructors in ORCAMath/Mat.h: the default case assigns
\* errno and the constructor returns. val is errno (0: not set); the elements
\* of the unfilled matrix are what malloc left there (junk).
MatFillValue_ORCAMath(rows, cols, type, elem, junk) ==
    IF _allocate(rows, cols) # "none"
    THEN Result(NoMat, _allocate(rows, cols), 0, NoMat, FALSE)
    ELSE IF type = fill_value
    THEN Result(Allocated(rows, cols, fill(rows, cols, elem)), "none", 0, NoMat, FALSE)
    ELSE Result(Allocated(rows, cols, fill(rows, cols, junk)), "none",
                ORCA_UNKNOWN_FILL_TYPE, NoMat, FALSE)

MatFillRand_ORCAMath(rows, cols, type, rnd, junk) ==
    IF _allocate(rows, cols) # "none"
    THEN Result(NoMat, _allocate(rows, cols), 0, NoMat, FALSE)
    ELSE IF type = fill_rand
    THEN Result(Allocated(rows, cols, rnd), "none", 0, NoMat, FALSE)
    ELSE Result(Allocated(rows, cols, fill(rows, cols, junk)), "none",
                ORCA_UNKNOWN_FILL_TYPE, NoMat, FALSE)

\* the specifiers tried: the five of the enumeration and one outside it
AllFillTypes == fill_zeros..(fill_rand + 1)
\* the shapes tried by the fill constructors
FillDims == 0..MaxFillDim
\* a < b for two elements
RLess(a, b) == a[1] * b[2] < b[1] * a[2]
\* std::uniform_real_distribution<T>(lowerBound, upperBound): x is a value the
\* distribution can give: an element of [lowerBound, upperBound), or
\* upperBound itself, which the rounding of the floating-point draw produces
\* (lowerBound when the two are equal)
distribution(lowerBound, upperBound, x) ==
    IF lowerBound = upperBound
    THEN x = lowerBound
    ELSE ~RLess(x, lowerBound) /\ ~RLess(upperBound, x)
\* randFill(lowerBound, upperBound) on a buffer of n elements: rnd, the n
\* draws in row-major order, is what the calls of set store
randFill(n, lowerBound, upperBound, rnd) ==
    /\ DOMAIN rnd = 0..(n - 1)
    /\ \A a \in 0..(n - 1) : distribution(lowerBound, upperBound, rnd[a])
\* the draws tried: of the elements the distribution can give, the multiples
\* of 1 / RandSteps
DrawsTried(lower, upper) ==
    {x \in {Norm(k, RandSteps) : k \in 0..(MaxVal * RandSteps)} : distribution(lower, upper, x)}
RandFillsTried(n, lower, upper) == [0..(n - 1) -> DrawsTried(lower, upper)]
Cells(rows, cols) == IF rows > 0 /\ cols > 0 THEN rows * cols ELSE 0

\* M = Mat<T>(rows, cols, type)
ConstructFill3(rows, cols, type) ==
    /\ Idle /\ ~Built
    /\ \E rnd \in RandFillsTried(Cells(rows, cols), Zero, One) :
         \E res \in {MatFill3(rows, cols, type, rnd)} :
             /\ randFill(Cells(rows, cols), Zero, One, rnd)
             /\ M' = res.self
             /\ ret' = Call("fill3", <<rows, cols, type>>, res)
    /\ UNCHANGED <<B, nsets>>

\* M = Mat<T>(rows, cols, type, elem)
ConstructValue(rows, cols, type, elem) ==
    /\ Idle /\ ~Built
    /\ \E res \in {MatFillValue(rows, cols, type, elem)} :
           /\ M' = res.self
           /\ ret' = Call("fill4", <<rows, cols, type, elem>>, res)
    /\ UNCHANGED <<B, nsets>>

\* M = Mat<T>(rows, cols, type, randLower, randUpper)
ConstructRand(rows, cols, type, randLower, randUpper) ==
    /\ Idle /\ ~Built
    /\ \E rnd \in RandFillsTried(Cells(rows, cols), randLower, randUpper) :
         \E res \in {MatFillRand(rows, cols, type, rnd)} :
             /\ randFill(Cells(rows, cols), randLower, randUpper, rnd)
             /\ M' = res.self
             /\ ret' = Call("fill5", <<rows, cols, type, randLower, randUpper>>, res)
    /\ UNCHANGED <<B, nsets>>

\* the same with ORCAMath/Mat.h
ConstructValue_ORCAMath(rows, cols, type, elem) ==
    /\ Idle /\ ~Built
    /\ \E junk \in Vals : \E res \in {MatFillValue_ORCAMath(rows, cols, type, elem, junk)} :
           /\ M' = res.self
           /\ ret' = Call("fill4.ORCAMath", <<rows, cols, type, elem>>, res)
    /\ UNCHANGED <<B, nsets>>

ConstructRand_ORCAMath(rows, cols, type, randLower, randUpper) ==
    /\ Idle /\ ~Built
    /\ \E junk \in Vals : \E rnd \in RandFillsTried(Cells(rows, cols), randLower, randUpper) :
         \E res \in {MatFillRand_ORCAMath(rows, cols, type, rnd, junk)} :
             /\ randFill(Cells(rows, cols), randLower, randUpper, rnd)
             /\ M' = res.self
             /\ ret' = Call("fill5.ORCAMath", <<rows, cols, type, randLower, randUpper>>, res)
    /\ UNCHANGED <<B, nsets>>

NextFill ==
    \/ \E rows \in FillDims, cols \in FillDims, type \in AllFillTypes :
          ConstructFill3(rows, cols, type)
    \/ \E rows \in FillDims, cols \in FillDims, type \in AllFillTypes, elem \in Vals :
          ConstructValue(rows, cols, type, elem)
    \/ \E rows \in FillDims, cols \in FillDims, type \in AllFillTypes :
          \E lo \in Vals, hi \in Vals : lo[1] <= hi[1] /\ ConstructRand(rows, cols, type, lo, hi)
    \/ \E rows \in FillDims, cols \in FillDims, type \in AllFillTypes, elem \in Vals :
          ConstructValue_ORCAMath(rows, cols, type, elem)
    \/ \E rows \in FillDims, cols \in FillDims, type \in AllFillTypes :
          \E lo \in Vals, hi \in Vals : lo[1] <= hi[1] /\ ConstructRand_ORCAMath(rows, cols, type, lo, hi)
    \/ Return

SpecFill == Init /\ [][NextFill]_vars

\* C18: with dimensions that can be allocated, Mat(rows, cols, type) with type
\* not in {zeros, ones, eye, rand}, Mat(rows, cols, type, elem) with type #
\* value and Mat(rows, cols, type, low, high) with type # rand raise
\* UnknownFillType and hand no matrix to the caller.
C18_UnknownFillRejected ==
    (/\ ret.op \in {"fill3", "fill4", "fill5", "fill4.ORCAMath", "fill5.ORCAMath"}
     /\ ret.args[1] > 0 /\ ret.args[2] > 0
     /\ \/ ret.op = "fill3" /\ ret.args[3] \notin {fill_zeros, fill_ones, fill_eye, fill_rand}
        \/ ret.op \in {"fill4", "fill4.ORCAMath"} /\ ret.args[3] # fill_value
        \/ ret.op \in {"fill5", "fill5.ORCAMath"} /\ ret.args[3] # fill_rand)
        => (ret.err = "UnknownFillType" /\ ~Built)

\* ------------------------------------------------------------------ vectors
\* Vec, RowVec and ColVec of ORCAMath/Vec.h: a storage core with _n_elems
VecClasses == {"Vec", "RowVec", "ColVec"}

\* Vec::_allocate and ColVec::_allocate: the test that throws
Vec_allocateThrows(_n_elems) == _n_elems < 0

\* Vec::_allocate (RowVec inherits it) and its override in ColVec; the
\* elements are what malloc left in the buffer (junk), and
\* _stickyComputeMask, which neither assigns, is what the storage of the
\* object held (mask)
Vec_allocate(class, _n_elems, junk, mask) ==
    [class |-> class, elems |-> _n_elems,
     rows |-> IF class = "ColVec" THEN _n_elems ELSE 1,
     cols |-> IF class = "ColVec" THEN 1 ELSE _n_elems,
     mat |-> [i \in 0..(_n_elems - 1) |-> junk], mask |-> mask]

length(v) == v.elems

\* Vec::_address(elem): the bounds test
Vec_addressThrows(v, elem) == (elem < 0) \/ (elem > length(v))

\* Vec(elements), RowVec(elements), ColVec(elements)
VecCount(class, elements, junk, mask) ==
    IF Vec_allocateThrows(elements)
    THEN Result(NoMat, "EmptyElement", NoVal, NoMat, FALSE)
    ELSE Result(Vec_allocate(class, elements, junk, mask), "none", NoVal, NoMat, FALSE)

\* Vec(initializer_list), RowVec(initializer_list), ColVec(initializer_list):
\* _allocate(size), then set(i, list[i]) for i < _n_elems; every set
\* assigns the mask 0, so only an empty list leaves it as it was
VecList(class, list, junk, mask) ==
    IF Vec_allocateThrows(Len(list))
    THEN Result(NoMat, "EmptyElement", NoVal, NoMat, FALSE)
    ELSE Result([Vec_allocate(class, Len(list), junk, mask) EXCEPT
                    !.mat = [i \in 0..(Len(list) - 1) |-> list[i + 1]],
                    !.mask = IF Len(list) = 0 THEN mask ELSE 0],
                "none", NoVal, NoMat, FALSE)

\* Vec::at(index): index == length() passes the test and reads past the buffer
Vec_at(v, index, junk) ==
    IF Vec_addressThrows(v, index)
    THEN Result(v, "OutOfBounds", NoVal, NoMat, FALSE)
    ELSE IF index \in DOMAIN v.mat
    THEN Result(v, "none", v.mat[index], NoMat, FALSE)
    ELSE Result(v, "none", junk, NoMat, TRUE)

\* Vec::set(index, elem) and ColVec::set(index, elem): index == length()
\* passes the test and the store goes past the buffer; the mask is reset
Vec_set(v, index, elem) ==
    IF Vec_addressThrows(v, index)
    THEN Result(v, "OutOfBounds", NoVal, NoMat, FALSE)
    ELSE IF index \in DOMAIN v.mat
    THEN Result([v EXCEPT !.mat[index] = elem, !.mask = 0], "none", NoVal, NoMat, FALSE)
    ELSE Result([v EXCEPT !.mask = 0], "none", NoVal, NoMat, TRUE)

\* Vec::set(row, col, elem): row must be 0 and col is the index;
\* ColVec::set(row, col, elem): col must be 0 and row is the index
Vec_set2(v, row, col, elem) ==
    IF v.class = "ColVec"
    THEN IF col # 0
         THEN Result(v, "OutOfBounds", NoVal, NoMat, FALSE)
         ELSE Vec_set(v, row, elem)
    ELSE IF row # 0
         THEN Result(v, "OutOfBounds", NoVal, NoMat, FALSE)
         ELSE Vec_set(v, col, elem)

\* element counts and lists tried: -1 .. MaxLen elements, lists up to MaxLen
Counts == -1..MaxLen
RECURSIVE ListsOf(_)
ListsOf(n) == IF n = 0 THEN {<<>>} ELSE [1..n -> Vals] \cup ListsOf(n - 1)
IsVec == Built /\ "class" \in DOMAIN M /\ M.class \in VecClasses

\* M = Vec<T>(elements) / RowVec<T>(elements) / ColVec<T>(elements)
ConstructVec(class, elements) ==
    /\ Idle /\ ~Built
    /\ \E junk \in Vals, mask \in MaskBits :
         \E res \in {VecCount(class, elements, junk, mask)} :
           /\ M' = res.self
           /\ ret' = Call("vec", <<class, elements>>, res)
    /\ UNCHANGED <<B, nsets>>

\* M = Vec<T>({...}) / RowVec<T>({...}) / ColVec<T>({...})
ConstructVecList(class, list) ==
    /\ Idle /\ ~Built
    /\ \E junk \in Vals, mask \in MaskBits :
         \E res \in {VecList(class, list, junk, mask)} :
           /\ M' = res.self
           /\ ret' = Call("vecList", <<class, Len(list)>>, res)
    /\ UNCHANGED <<B, nsets>>

\* M.at(index)
VecAt(index) ==
    /\ Idle /\ IsVec
    /\ \E junk \in Vals : \E res \in {Vec_at(M, index, junk)} :
           /\ M' = res.self
           /\ ret' = Call("vec.at", <<index>>, res)
    /\ UNCHANGED <<B, nsets>>

\* M.set(index, elem)
VecSet(index, elem) ==
    /\ Idle /\ IsVec
    /\ nsets < MaxSets
    /\ \E res \in {Vec_set(M, index, elem)} :
           /\ M' = res.self
           /\ ret' = Call("vec.set", <<index, elem>>, res)
           /\ nsets' = IF res.err = "none" THEN nsets + 1 ELSE nsets
    /\ UNCHANGED B

\* M.set(row, col, elem)
VecSet2(row, col, elem) ==
    /\ Idle /\ IsVec
    /\ nsets < MaxSets
    /\ \E res \in {Vec_set2(M, row, col, elem)} :
           /\ M' = res.self
           /\ ret' = Call("vec.set2", <<row, col, elem>>, res)
           /\ nsets' = IF res.err = "none" THEN nsets + 1 ELSE nsets
    /\ UNCHANGED B

NextVec ==
    \/ \E class \in VecClasses, elements \in Counts : ConstructVec(class, elements)
    \/ \E class \in VecClasses, list \in ListsOf(MaxLen) : ConstructVecList(class, list)
    \/ \E index \in Counts : VecAt(index)
    \/ \E index \in Counts, elem \in Vals : VecSet(index, elem)
    \/ \E row \in Counts, col \in Counts, elem \in Vals : VecSet2(row, col, elem)
    \/ Return

SpecVec == Init /\ [][NextVec]_vars

\* C19: constructing a Vec, RowVec or ColVec with length 0 (an element count
\* of 0 or an empty initializer list) fails with EmptyElement, and every
\* constructed vector has length() >= 1, one dimension equal to 1 and the
\* other equal to length().
C19_VectorsNonEmpty ==
    /\ (ret.op \in {"vec", "vecList"} /\ ret.args[2] = 0)
          => (ret.err = "EmptyElement" /\ ~Built)
    /\ IsVec => /\ length(M) >= 1
                /\ \/ M.rows = 1 /\ M.cols = length(M)
                   \/ M.cols = 1 /\ M.rows = length(M)

\* ------------------------------------------------------------------ Complex
\* Complex<T> of ORCAMath/Complex.h: a pair of components

\* Complex(real, imag)
Complex(real, imag) == [class |-> "Complex", real |-> real, imag |-> imag]

re(self) == self.real
im(self) == self.imag

\* mutant of the list constructor: the size test is off by one
ComplexList_LongerAccepted(_castValues, faults, junkRe, junkIm) ==
    IF Len(_castValues) > 3
    THEN Result(NoMat, "BadDimensions", NoVal, NoMat, FALSE)
    ELSE IF Len(_castValues) = 0
    THEN IF faults
         THEN Result(NoMat, "SIGSEGV", NoVal, NoMat, TRUE)
         ELSE Result(Complex(junkRe, junkIm), "none", NoVal, NoMat, TRUE)
    ELSE Result(Complex(_castValues[1],
                        IF Len(_castValues) = 2 THEN _castValues[2] ELSE junkIm),
                "none", NoVal, NoMat, FALSE)

\* Complex(std::initializer_list<T>): more than two values throw; _real is
\* read from begin(); _imag is assigned only for two values and is otherwise
\* left as it was in the uninitialised object (junkIm). begin() of an empty
\* list points at no element and reading it is undefined: the build either
\* faults on the read, which ends the process with no object constructed
\* (faults), or goes on and constructs an object whose _real is whatever was
\* read (junkRe)
ComplexList(_castValues, faults, junkRe, junkIm) ==
    IF Len(_castValues) > 2
    THEN Result(NoMat, "BadDimensions", NoVal, NoMat, FALSE)
    ELSE IF Len(_castValues) = 0
    THEN IF faults
         THEN Result(NoMat, "SIGSEGV", NoVal, NoMat, TRUE)
         ELSE Result(Complex(junkRe, junkIm), "none", NoVal, NoMat, TRUE)
    ELSE Result(Complex(_castValues[1],
                        IF Len(_castValues) = 2 THEN _castValues[2] ELSE junkIm),
                "none", NoVal, NoMat, FALSE)

\* Complex(T1 cast): a scalar operand of an operator is cast first
ComplexCast(cast) == Complex(cast, Zero)

\* a component that is not a number: 0 / 0 in the element type double
NaN == <<0, 0>>
Finite(c) == c.real # NaN /\ c.imag # NaN

\* operator+(Complex<T1> c1, Complex<T2> c2)
Complex_add(c1, c2) == Complex(RAdd(c1.real, c2.real), RAdd(c1.imag, c2.imag))
\* operator-(Complex<T1> c1, Complex<T2> c2)
Complex_sub(c1, c2) == Complex(RSub(c1.real, c2.real), RSub(c1.imag, c2.imag))
\* operator*(Complex<T1> c1, Complex<T2> c2)
Complex_mul(c1, c2) ==
    Complex(RSub(RMul(c1.real, c2.real), RMul(c1.imag, c2.imag)),
            RAdd(RMul(c1.real, c2.imag), RMul(c1.imag, c2.real)))
\* operator/(Complex<T1> c1, Complex<T2> c2): div is |c2|^2; with div = 0
\* both numerators are 0 and both quotients are 0 / 0
Complex_div(c1, c2) ==
    LET div == RAdd(RMul(c2.real, c2.real), RMul(c2.imag, c2.imag)) IN
    IF div = Zero
    THEN Complex(NaN, NaN)
    ELSE Complex(RDiv(RAdd(RMul(c1.real, c2.real), RMul(c1.imag, c2.imag)), div),
                 RDiv(RSub(RMul(c1.imag, c2.real), RMul(c1.real, c2.imag)), div))

\* the lists tried: up to two values more than the constructor takes
ComplexLists == ListsOf(MaxLen + 1)
IsComplex == Built /\ "class" \in DOMAIN M /\ M.class = "Complex"

\* M = Complex<T>(real, imag)
ConstructComplex(real, imag) ==
    /\ Idle /\ ~Built
    /\ M' = Complex(real, imag)
    /\ ret' = Call("complex", <<real, imag>>, Result(NoMat, "none", NoVal, NoMat, FALSE))
    /\ UNCHANGED <<B, nsets>>

\* M = Complex<T>({...})
ConstructComplexList(_castValues) ==
    /\ Idle /\ ~Built
    /\ \E faults \in BOOLEAN, junkRe \in Vals, junkIm \in Vals :
         \E res \in {ComplexList(_castValues, faults, junkRe, junkIm)} :
             /\ M' = res.self
             /\ ret' = Call("complexList", <<_castValues>>, res)
    /\ UNCHANGED <<B, nsets>>

\* M.re()
Re ==
    /\ Idle /\ IsComplex
    /\ ret' = Call("re", <<>>, Result(M, "none", re(M), NoMat, FALSE))
    /\ UNCHANGED <<M, B, nsets>>

\* M.im()
Im ==
    /\ Idle /\ IsComplex
    /\ ret' = Call("im", <<>>, Result(M, "none", im(M), NoMat, FALSE))
    /\ UNCHANGED <<M, B, nsets>>

\* the operands of the compound assignments: Complex numbers, and scalars
\* through the cast
ComplexOperands ==
    {Complex(real, imag) : real \in Vals, imag \in Vals} \cup {ComplexCast(cast) : cast \in Vals}

\* M += c2: c1 = c1 + c2 on the caller's number
AddAssign(c2) ==
    /\ Idle /\ IsComplex /\ Finite(M)
    /\ nsets < MaxSets
    /\ M' = Complex_add(M, c2)
    /\ ret' = Call("+=", <<c2>>, Result(M', "none", NoVal, NoMat, FALSE))
    /\ nsets' = nsets + 1
    /\ UNCHANGED B

\* M -= c2
SubAssign(c2) ==
    /\ Idle /\ IsComplex /\ Finite(M)
    /\ nsets < MaxSets
    /\ M' = Complex_sub(M, c2)
    /\ ret' = Call("-=", <<c2>>, Result(M', "none", NoVal, NoMat, FALSE))
    /\ nsets' = nsets + 1
    /\ UNCHANGED B

\* M *= c2
MulAssign(c2) ==
    /\ Idle /\ IsComplex /\ Finite(M)
    /\ nsets < MaxSets
    /\ M' = Complex_mul(M, c2)
    /\ ret' = Call("*=", <<c2>>, Result(M', "none", NoVal, NoMat, FALSE))
    /\ nsets' = nsets + 1
    /\ UNCHANGED B

\* M /= c2
DivAssign(c2) ==
    /\ Idle /\ IsComplex /\ Finite(M)
    /\ nsets < MaxSets
    /\ M' = Complex_div(M, c2)
    /\ ret' = Call("/=", <<c2>>, Result(M', "none", NoVal, NoMat, FALSE))
    /\ nsets' = nsets + 1
    /\ UNCHANGED B

NextComplex ==
    \/ \E real \in Vals, imag \in Vals : ConstructComplex(real, imag)
    \/ \E _castValues \in ComplexLists : ConstructComplexList(_castValues)
    \/ Re
    \/ Im
    \/ \E c2 \in ComplexOperands : AddAssign(c2)
    \/ \E c2 \in ComplexOperands : SubAssign(c2)
    \/ \E c2 \in ComplexOperands : MulAssign(c2)
    \/ \E c2 \in ComplexOperands : DivAssign(c2)
    \/ Return

SpecComplex == Init /\ [][NextComplex]_vars

\* C20: the Complex initializer-list constructor raises BadDimensions for
\* every list of more than 2 values and constructs nothing, and for a list of
\* exactly 2 values (a, b) it yields a number with re() == a and im() == b.
C20_ComplexList ==
    ret.op = "complexList" =>
        /\ Len(ret.args[1]) > 2 => (ret.err = "BadDimensions" /\ ~Built)
        /\ Len(ret.args[1]) = 2 =>
              /\ ret.err = "none" /\ IsComplex
              /\ re(M) = ret.args[1][1]
              /\ im(M) = ret.args[1][2]

\* a list of two different values was given and the number was constructed
C20_Witness ==
    /\ ret.op = "complexList"
    /\ ret.args[1] = <<Rat(1), Rat(2)>>
    /\ ret.err = "none"
    /\ IsComplex /\ re(M) = Rat(1) /\ im(M) = Rat(2)

\* ------------------------------------------- the elimination loop, by steps
\* The loop of det() / rref() / rref(Mat<T> _m2), one statement group per
\* step. During a run M is the working clone (matClone / _m1Clone), B is
\* _m2Clone (NoMat for det and rref) and ret is the frame of the call:
\*   kernel      "det", "rref" or "rrefAug"
\*   pc          "for" (loop test and the cols < lead guard), "while" (the
\*               test of the pivot search), "swap", "scale", "elim" (one pass
\*               of the elimination for-loop), "done" (the loop ran to its
\*               end), "return" (one of the early returns), "throw"
\*   r, i, lead, multiplier     the locals of the kernel
\*   junk        what the memory past the end of the buffer holds
\*   A0          the matrix the kernel was called on
\*   val         what det() returns
Kernels == {"det", "rref", "rrefAug"}

\* the matrices the kernels are run on: every matrix of up to MaxDim rows and
\* cols with elements 0..MaxVal when it has at most MaxFullCells elements,
\* and with elements 0..1 when it is larger
ElimVals(rows, cols) == IF rows * cols <= MaxFullCells THEN Vals ELSE {Zero, One}
ElimMats ==
    UNION {{[rows |-> rows, cols |-> cols, mat |-> mat] :
               mat \in [0..(rows * cols - 1) -> ElimVals(rows, cols)]} :
           rows \in 1..MaxDim, cols \in 1..MaxDim}

InLoop == ret.op = "loop"
Frame(kernel, pc, r, i, lead, multiplier, junk, A0, val) ==
    [op |-> "loop", kernel |-> kernel, pc |-> pc, r |-> r, i |-> i, lead |-> lead,
     multiplier |-> multiplier, junk |-> junk, A0 |-> A0, val |-> val]

\* entry of the kernel: the clones, lead = 0, r = 0, multiplier = 1.0
LoopEnter(kernel, m, junk) ==
    /\ Idle /\ ~Built
    /\ kernel = "det" => m.rows = m.cols
    /\ M' = Clone(m)
    /\ B' = IF kernel = "rrefAug"
            THEN Clone(MatFill(m.rows, m.rows, fill_eye).self)
            ELSE NoMat
    /\ ret' = Frame(kernel, "for", 0, 0, 0, One, junk, m, NoVal)
    /\ UNCHANGED nsets

\* for (...; r < rows; ...) { if (cols < lead) return ...; index_t i = r;
LoopTest ==
    /\ InLoop /\ ret.pc = "for"
    /\ ret' = IF ret.r >= M.rows
              THEN [ret EXCEPT !.pc = "done",
                               !.val = IF ret.kernel = "det"
                                       THEN RMul(ret.multiplier, prod(diag(M)))
                                       ELSE NoVal]
              ELSE IF M.cols < ret.lead
              THEN [ret EXCEPT !.pc = "return",
                               !.val = IF ret.kernel = "det" THEN Zero ELSE NoVal]
              ELSE [ret EXCEPT !.pc = "while", !.i = ret.r]
    /\ UNCHANGED <<M, B, nsets>>

\* while (m.at(i,lead) == 0) { ++i; if (rows == i) { i = r; ++lead;
\*                             if (cols == lead) return ...; } }
\* one evaluation of the test and, when it holds, one pass of the body:
\* the frame f of a call working on m, after it
PivotPass(f, m) ==
    IF AddressThrows(m, f.i, f.lead)
    THEN [f EXCEPT !.pc = "throw"]
    ELSE IF at(m, f.i, f.lead, f.junk) # Zero
    THEN [f EXCEPT !.pc = "swap"]
    ELSE IF m.rows # f.i + 1
    THEN [f EXCEPT !.i = f.i + 1]
    ELSE IF m.cols # f.lead + 1
    THEN [f EXCEPT !.i = f.r, !.lead = f.lead + 1]
    ELSE [f EXCEPT !.i = f.r, !.lead = f.lead + 1, !.pc = "return",
                   !.val = IF f.kernel = "det" THEN Zero ELSE NoVal]

PivotTest ==
    /\ InLoop /\ ret.pc = "while"
    /\ ret' = PivotPass(ret, M)
    /\ UNCHANGED <<M, B, nsets>>

\* mutant of SwapRows: in rref(_m2) only _m1Clone has its rows exchanged
SwapRows_PrimaryOnly ==
    /\ InLoop /\ ret.pc = "swap"
    /\ M' = IF ret.kernel = "rrefAug" /\ ret.i = ret.r THEN M ELSE rowSwap(M, ret.i, ret.r)
    /\ ret' = [ret EXCEPT !.pc = "scale",
                          !.multiplier = IF ret.kernel = "det"
                                         THEN RMul(ret.multiplier, SwapSign(ret.i, ret.r))
                                         ELSE ret.multiplier]
    /\ UNCHANGED <<B, nsets>>

\* det, rref: rowSwap(i,r) (and the sign of the multiplier in det);
\* rref(_m2): if (i != r) { _m1Clone.rowSwap(i,r); _m2Clone.rowSwap(i,r); }
SwapRows ==
    /\ InLoop /\ ret.pc = "swap"
    /\ M' = IF ret.kernel = "rrefAug" /\ ret.i = ret.r THEN M ELSE rowSwap(M, ret.i, ret.r)
    /\ B' = IF ret.kernel = "rrefAug" /\ ret.i # ret.r THEN rowSwap(B, ret.i, ret.r) ELSE B
    /\ ret' = [ret EXCEPT !.pc = "scale",
                          !.multiplier = IF ret.kernel = "det"
                                         THEN RMul(ret.multiplier, SwapSign(ret.i, ret.r))
                                         ELSE ret.multiplier]
    /\ UNCHANGED nsets

\* if (at(r,lead) != 0) { (det: multiplier *= at(r,lead);) rowMutliply ... }
\* and the initialisation of the elimination for-loop. In rref(_m2) the
\* calls are _m2Clone.rowMutliply(r, 1/piv), _m1Clone.rowMutliply(r, 1/piv)
\* and _m2Clone.rowMutliply(r, 1/piv2), piv2 being at(r,lead) read again
\* after the row of _m1Clone was scaled.
ScaleRow ==
    /\ InLoop /\ ret.pc = "scale"
    /\ \E piv \in {at(M, ret.r, ret.lead, ret.junk)} :
         \E m1 \in {IF piv # Zero THEN rowMutliply(M, ret.r, RDiv(One, piv)) ELSE M} :
           \E a2 \in {IF ret.kernel = "rrefAug" /\ piv # Zero
                      THEN rowMutliply(B, ret.r, RDiv(One, piv)) ELSE B} :
             \E piv2 \in {at(m1, ret.r, ret.lead, ret.junk)} :
               /\ M' = m1
               /\ B' = IF ret.kernel = "rrefAug" /\ piv # Zero
                       THEN rowMutliply(a2, ret.r, RDiv(One, piv2)) ELSE a2
               /\ ret' = [ret EXCEPT !.pc = "elim",
                                     !.i = IF ret.kernel = "det" THEN ret.r ELSE 0,
                                     !.multiplier =
                                         IF ret.kernel = "det" /\ piv # Zero
                                         THEN RMul(ret.multiplier, piv)
                                         ELSE ret.multiplier]
    /\ UNCHANGED nsets

\* for (i = ...; i < rows; ++i) if (i != r) rowAdd(i, r, -at(i,lead));
\* one pass, or, when i reached rows, ++lead and the ++r of the outer loop
EliminateRow ==
    /\ InLoop /\ ret.pc = "elim"
    /\ IF ret.i < M.rows
       THEN /\ M' = IF ret.i # ret.r
                    THEN rowAdd(M, ret.i, ret.r, RNeg(at(M, ret.i, ret.lead, ret.junk)))
                    ELSE M
            /\ B' = IF ret.i # ret.r /\ ret.kernel = "rrefAug"
                    THEN rowAdd(B, ret.i, ret.r, RNeg(at(M, ret.i, ret.lead, ret.junk)))
                    ELSE B
            /\ ret' = [ret EXCEPT !.i = ret.i + 1]
       ELSE /\ ret' = [ret EXCEPT !.pc = "for", !.lead = ret.lead + 1, !.r = ret.r + 1]
            /\ UNCHANGED <<M, B>>
    /\ UNCHANGED nsets

\* the kernel has left its loop; the frame and the clones are gone
LoopExited == InLoop /\ ret.pc \in {"done", "return", "throw"}
LoopLeave ==
    /\ LoopExited
    /\ M' = NoMat
    /\ B' = NoMat
    /\ ret' = NoRet
    /\ UNCHANGED nsets

NextLoop ==
    \/ \E kernel \in Kernels, m \in ElimMats, junk \in Vals : LoopEnter(kernel, m, junk)
    \/ LoopTest
    \/ PivotTest
    \/ SwapRows
    \/ ScaleRow
    \/ EliminateRow
    \/ LoopLeave

SpecLoop == Init /\ [][NextLoop]_vars

\* C21: in rref(), rref(other) and det() the column index the loop passes to
\* at() is a column of the matrix: whenever the loop is at the pivot search,
\* the swap, the normalisation or the elimination, 0 <= lead < cols.
C21_LeadInRange ==
    (InLoop /\ ret.pc \in {"while", "swap", "scale", "elim"})
        => (0 <= ret.lead /\ ret.lead < M.cols)

\* the permutation matrix obtained from eye(3) by exchanging rows 0 and 2
P02 == [rows |-> 3, cols |-> 3,
        mat |-> [a \in 0..8 |-> IF a \in {2, 4, 6} THEN One ELSE Zero]]

\* C22: in det() every exchange of two distinct rows (i # r, whatever i - r)
\* multiplies the multiplier by -1 exactly once and an exchange with i = r
\* leaves it alone; and det of eye(3) with rows 0 and 2 exchanged is -1.
C22_SwapNegates ==
    [][/\ (InLoop /\ ret.kernel = "det" /\ ret.pc = "swap")
            => ret'.multiplier = IF ret.i # ret.r
                                 THEN RNeg(ret.multiplier)
                                 ELSE ret.multiplier
       /\ (InLoop /\ ret.kernel = "det" /\ ret.pc = "for" /\ ret'.pc = "done" /\ ret.A0 = P02)
            => ret'.val = RNeg(One)]_vars

\* ------------------------------------------------- row operations as calls
\* The row operations of a Mat object are loops of at() and set(): _address
\* throws for a row index below 0 or above _n_rows, and lets row index _n_rows
\* through, which reads and writes the memory after the buffer. junk[i] is
\* what that memory holds behind column i; oob tells that it was accessed.

\* r1TempLoaded after the first loop of rowSwap: element i is r1Temp.at(i),
\* which is at(r1, i) of the matrix
RowLoaded(self, r1, junk) ==
    [k \in 1..self.cols |-> at(self, r1, k - 1, junk[k - 1])]

\* for (i = 0; i < _n_cols; ++i) set(r1, i, at(r2, i)): the second loop of
\* rowSwap; res is the outcome so far
RECURSIVE rowCopyLoop(_, _, _, _, _)
rowCopyLoop(res, r1, r2, junk, i) ==
    IF i >= res.self.cols \/ res.err # "none"
    THEN res
    ELSE IF AddressThrows(res.self, r2, i)
    THEN [res EXCEPT !.err = "OutOfBounds"]
    ELSE rowCopyLoop(
             [set(res.self, r1, i, at(res.self, r2, i, junk[i])) EXCEPT
                 !.oob = @ \/ res.oob \/ Address(res.self, r2, i) >= BufLen(res.self)],
             r1, r2, junk, i + 1)

\* rowSwap(r1, r2): getRow(r1) makes the bounds test of r1, the row is loaded
\* into a Vec of _n_cols elements, row r1 is overwritten with row r2 (at(r2, 0)
\* makes the bounds test of r2) and setRow stores the Vec in row r2
rowSwapCall(self, r1, r2, junk) ==
    IF getRowThrows(self, r1)
    THEN Result(self, "OutOfBounds", NoVal, NoMat, FALSE)
    ELSE LET copied == rowCopyLoop(Result(self, "none", NoVal, NoMat, r1 >= self.rows),
                                   r1, r2, junk, 0)
         IN  IF copied.err # "none"
             THEN copied
             ELSE [setRow(copied.self, r2, RowLoaded(self, r1, junk)) EXCEPT
                      !.oob = @ \/ copied.oob]

\* rowSwap of the earlier revision of the class: the Vec is constructed with
\* _n_rows elements. Loading it calls Vec::set(i, ..) for i < _n_cols, which
\* throws for i > _n_rows and stores past the Vec's buffer for i == _n_rows
\* (oob); then row r1 is overwritten with row r2, and setRow throws
\* BadDimensions when the length of the Vec, _n_rows, is not _n_cols
rowSwap_part002(self, r1, r2, junk) ==
    IF getRowThrows(self, r1)
    THEN Result(self, "OutOfBounds", NoVal, NoMat, FALSE)
    ELSE IF self.cols - 1 > self.rows
    THEN Result(self, "OutOfBounds", NoVal, NoMat, TRUE)
    ELSE LET copied == rowCopyLoop(Result(self, "none", NoVal, NoMat,
                                          (r1 >= self.rows) \/ (self.cols - 1 = self.rows)),
                                   r1, r2, junk, 0)
         IN  IF copied.err # "none"
             THEN copied
             ELSE IF self.rows # self.cols
             THEN [copied EXCEPT !.err = "BadDimensions"]
             ELSE [setRow(copied.self, r2, RowLoaded(self, r1, junk)) EXCEPT
                      !.oob = @ \/ copied.oob]

\* the two at() of one sum throw: the order in which the operands of + and -
\* are evaluated is the compiler's, so when one row index is _n_rows and the
\* other throws, the read after the buffer has happened (oob) only when that
\* operand came first; leftFirst says that the left operand is evaluated first
PairThrows(self, r1, r2, i) == AddressThrows(self, r1, i) \/ AddressThrows(self, r2, i)
PairThrown(res, r1, r2, i, leftFirst) ==
    [res EXCEPT !.err = "OutOfBounds",
                !.oob = @ \/ IF leftFirst
                             THEN ~AddressThrows(res.self, r1, i)
                                  /\ Address(res.self, r1, i) >= BufLen(res.self)
                             ELSE ~AddressThrows(res.self, r2, i)
                                  /\ Address(res.self, r2, i) >= BufLen(res.self)]

\* a sum was stored by stored == set(r1, i, ..): the outcome so far, with the
\* reads of at(r1, i) and at(r2, i)
PairStored(res, stored, r2, i) ==
    [stored EXCEPT !.oob = @ \/ res.oob \/ Address(res.self, r2, i) >= BufLen(res.self)]

\* mutant of rowAddLoop: the sum is stored in row r2
RECURSIVE rowAddLoop_StoresRight(_, _, _, _, _, _, _)
rowAddLoop_StoresRight(res, r1, r2, multiply, junk, leftFirst, i) ==
    IF i >= res.self.cols \/ res.err # "none"
    THEN res
    ELSE IF PairThrows(res.self, r1, r2, i)
    THEN PairThrown(res, r1, r2, i, leftFirst)
    ELSE rowAddLoop_StoresRight(
             PairStored(res, set(res.self, r2, i,
                                 RAdd(at(res.self, r1, i, junk[i]),
                                      RMul(multiply, at(res.self, r2, i, junk[i])))),
                        r2, i),
             r1, r2, multiply, junk, leftFirst, i + 1)

\* for (i = 0; i < _n_cols; ++i) set(r1, i, at(r1, i) + multiply*at(r2, i));
RECURSIVE rowAddLoop(_, _, _, _, _, _, _)
rowAddLoop(res, r1, r2, multiply, junk, leftFirst, i) ==
    IF i >= res.self.cols \/ res.err # "none"
    THEN res
    ELSE IF PairThrows(res.self, r1, r2, i)
    THEN PairThrown(res, r1, r2, i, leftFirst)
    ELSE rowAddLoop(
             PairStored(res, set(res.self, r1, i,
                                 RAdd(at(res.self, r1, i, junk[i]),
                                      RMul(multiply, at(res.self, r2, i, junk[i])))),
                        r2, i),
             r1, r2, multiply, junk, leftFirst, i + 1)

\* for (i = 0; i < _n_cols; ++i) set(r1, i, at(r1, i) + at(r2, i));
RECURSIVE rowAdd2Loop(_, _, _, _, _, _)
rowAdd2Loop(res, r1, r2, junk, leftFirst, i) ==
    IF i >= res.self.cols \/ res.err # "none"
    THEN res
    ELSE IF PairThrows(res.self, r1, r2, i)
    THEN PairThrown(res, r1, r2, i, leftFirst)
    ELSE rowAdd2Loop(
             PairStored(res, set(res.self, r1, i,
                                 RAdd(at(res.self, r1, i, junk[i]),
                                      at(res.self, r2, i, junk[i]))),
                        r2, i),
             r1, r2, junk, leftFirst, i + 1)

\* rowSubtract of the earlier revision of the class:
\* for (i = 0; i < _n_cols; ++i) set(r1, i, at(r1, i) - at(r2, i));
RECURSIVE rowSubtractLoop(_, _, _, _, _, _)
rowSubtractLoop(res, r1, r2, junk, leftFirst, i) ==
    IF i >= res.self.cols \/ res.err # "none"
    THEN res
    ELSE IF PairThrows(res.self, r1, r2, i)
    THEN PairThrown(res, r1, r2, i, leftFirst)
    ELSE rowSubtractLoop(
             PairStored(res, set(res.self, r1, i,
                                 RSub(at(res.self, r1, i, junk[i]),
                                      at(res.self, r2, i, junk[i]))),
                        r2, i),
             r1, r2, junk, leftFirst, i + 1)

\* rowAdd(r1, r2, multiply), rowAdd(r1, r2) and rowSubtract(r1, r2) on a Mat object
rowAddCall(self, r1, r2, multiply, junk, leftFirst) ==
    rowAddLoop(Result(self, "none", NoVal, NoMat, FALSE), r1, r2, multiply, junk, leftFirst, 0)
rowAdd2Call(self, r1, r2, junk, leftFirst) ==
    rowAdd2Loop(Result(self, "none", NoVal, NoMat, FALSE), r1, r2, junk, leftFirst, 0)
rowSubtract_part002(self, r1, r2, junk, leftFirst) ==
    rowSubtractLoop(Result(self, "none", NoVal, NoMat, FALSE), r1, r2, junk, leftFirst, 0)

\* for (i = 0; i < _n_cols; ++i) set(r1, i, t1 * at(r1, i));
RECURSIVE rowMutliplyLoop(_, _, _, _, _)
rowMutliplyLoop(res, r1, t1, junk, i) ==
    IF i >= res.self.cols \/ res.err # "none"
    THEN res
    ELSE IF AddressThrows(res.self, r1, i)
    THEN [res EXCEPT !.err = "OutOfBounds"]
    ELSE rowMutliplyLoop(
             [set(res.self, r1, i, RMul(t1, at(res.self, r1, i, junk[i]))) EXCEPT
                 !.oob = @ \/ res.oob],
             r1, t1, junk, i + 1)

\* rowMutliply(r1, t1) on a Mat object
rowMutliplyCall(self, r1, t1, junk) ==
    rowMutliplyLoop(Result(self, "none", NoVal, NoMat, FALSE), r1, t1, junk, 0)

\* the row indices tried on M: its rows, the index _n_rows that _address lets
\* through, and an index on either side that it refuses
Rows == IF Built THEN (-1)..(M.rows + 1) ELSE {}

\* what the memory after M's buffer holds behind each column: zero or a value
\* other than zero in each place; it is not read when no row index is _n_rows
JunkVals == {Zero, Rat(MaxVal)}
JunkRows(r1, r2) ==
    IF Built /\ (r1 = M.rows \/ r2 = M.rows)
    THEN [0..(M.cols - 1) -> JunkVals]
    ELSE IF Built THEN {[i \in 0..(M.cols - 1) |-> Zero]} ELSE {}

\* the orders of evaluation that can be told apart in the call
Orders(r1, r2) ==
    IF Built /\ (r1 = M.rows \/ r2 = M.rows) /\ PairThrows(M, r1, r2, 0)
    THEN BOOLEAN ELSE {TRUE}

\* M.rowSwap(r1, r2); nsets counts the row operations done on M
RowSwap(r1, r2) ==
    /\ Idle /\ Built /\ nsets < MaxRowOps
    /\ \E junk \in JunkRows(r1, r2) : \E res \in {rowSwapCall(M, r1, r2, junk)} :
           /\ M' = res.self
           /\ ret' = Call("rowSwap", <<r1, r2>>, res)
    /\ nsets' = nsets + 1
    /\ UNCHANGED B

\* M.rowSwap(r1, r2) with the earlier revision of the class
RowSwap_part002(r1, r2) ==
    /\ Idle /\ Built /\ nsets < MaxRowOps
    /\ \E junk \in JunkRows(r1, r2) : \E res \in {rowSwap_part002(M, r1, r2, junk)} :
           /\ M' = res.self
           /\ ret' = Call("rowSwap.part_002", <<r1, r2>>, res)
    /\ nsets' = nsets + 1
    /\ UNCHANGED B

\* M.rowAdd(r1, r2, multiply)
RowAdd(r1, r2, multiply) ==
    /\ Idle /\ Built /\ nsets < MaxRowOps
    /\ \E junk \in JunkRows(r1, r2), leftFirst \in Orders(r1, r2) :
         \E res \in {rowAddCall(M, r1, r2, multiply, junk, leftFirst)} :
           /\ M' = res.self
           /\ ret' = Call("rowAdd", <<r1, r2, multiply>>, res)
    /\ nsets' = nsets + 1
    /\ UNCHANGED B

\* M.rowAdd(r1, r2)
RowAdd2(r1, r2) ==
    /\ Idle /\ Built /\ nsets < MaxRowOps
    /\ \E junk \in JunkRows(r1, r2), leftFirst \in Orders(r1, r2) :
         \E res \in {rowAdd2Call(M, r1, r2, junk, leftFirst)} :
           /\ M' = res.self
           /\ ret' = Call("rowAdd2", <<r1, r2>>, res)
    /\ nsets' = nsets + 1
    /\ UNCHANGED B

\* M.rowSubtract(r1, r2) with the earlier revision of the class
RowSubtract_part002(r1, r2) ==
    /\ Idle /\ Built /\ nsets < MaxRowOps
    /\ \E junk \in JunkRows(r1, r2), leftFirst \in Orders(r1, r2) :
         \E res \in {rowSubtract_part002(M, r1, r2, junk, leftFirst)} :
           /\ M' = res.self
           /\ ret' = Call("rowSubtract.part_002", <<r1, r2>>, res)
    /\ nsets' = nsets + 1
    /\ UNCHANGED B

\* M.rowMutliply(r1, t1)
RowMultiply(r1, t1) ==
    /\ Idle /\ Built /\ nsets < MaxRowOps
    /\ \E junk \in JunkRows(r1, r1) : \E res \in {rowMutliplyCall(M, r1, t1, junk)} :
           /\ M' = res.self
           /\ ret' = Call("rowMutliply", <<r1, t1>>, res)
    /\ nsets' = nsets + 1
    /\ UNCHANGED B

NextRows ==
    \/ \E rows \in ListDims, cols \in ListDims : ConstructList(rows, cols, FALSE)
    \/ Det
    \/ \E r1 \in Rows, r2 \in Rows : RowSwap(r1, r2)
    \/ \E r1 \in Rows, r2 \in Rows : RowSwap_part002(r1, r2)
    \/ \E r1 \in Rows, r2 \in Rows, multiply \in Vals : RowAdd(r1, r2, multiply)
    \/ \E r1 \in Rows, r2 \in Rows : RowAdd2(r1, r2)
    \/ \E r1 \in Rows, r2 \in Rows : RowSubtract_part002(r1, r2)
    \/ \E r1 \in Rows, t1 \in Vals : RowMultiply(r1, t1)
    \/ Return

SpecRows == Init /\ [][NextRows]_vars

\* the row indices of the call that ended are rows of the matrix
ValidRows == \A k \in 1..2 : ret'.args[k] \in 0..(M.rows - 1)

\* C23: rowSwap(r1, r2) with r1 and r2 rows of a matrix of any shape leaves
\* row r1 holding what row r2 held and row r2 holding what row r1 held, leaves
\* every other row as it was (so it changes nothing when r1 = r2), and clears
\* the cache mask.
C23_RowSwap ==
    [][(Idle /\ ret'.op \in {"rowSwap", "rowSwap.part_002"} /\ ValidRows) =>
          /\ ret'.err = "none"
          /\ M'.rows = M.rows /\ M'.cols = M.cols
          /\ \A i \in 0..(M.rows - 1), j \in 0..(M.cols - 1) :
                Elem(M', i, j) = IF i = ret'.args[1] THEN Elem(M, ret'.args[2], j)
                                 ELSE IF i = ret'.args[2] THEN Elem(M, ret'.args[1], j)
                                 ELSE Elem(M, i, j)
          /\ M'.mask = 0]_vars

\* C24: rowAdd(r1, r2, m) with r1 and r2 rows of the matrix sets element
\* (r1,j) to old(r1,j) + m * old(r2,j) for every column j and changes no
\* element outside row r1; with r1 # r2, row r2 is the same before and after.
\* rowAdd(r1, r2) is the same with m = 1.
C24_RowAdd ==
    [][(Idle /\ ret'.op \in {"rowAdd", "rowAdd2"} /\ ValidRows) =>
          /\ ret'.err = "none"
          /\ M'.rows = M.rows /\ M'.cols = M.cols
          /\ \A i \in 0..(M.rows - 1), j \in 0..(M.cols - 1) :
                Elem(M', i, j) =
                    IF i = ret'.args[1]
                    THEN RAdd(Elem(M, i, j),
                              RMul(IF ret'.op = "rowAdd" THEN ret'.args[3] ELSE One,
                                   Elem(M, ret'.args[2], j)))
                    ELSE Elem(M, i, j)]_vars

\* rowAdd(0, 1, 2) was called on [[1,2],[3,4]]: row 0 is [7,10], row 1 is [3,4]
C24_Witness ==
    /\ ret.op = "rowAdd" /\ ret.args = <<0, 1, Rat(2)>> /\ ret.err = "none"
    /\ M.rows = 2 /\ M.cols = 2
    /\ M.mat = [a \in 0..3 |-> Rat(IF a = 0 THEN 7 ELSE IF a = 1 THEN 10 ELSE a + 1)]

\* the steps of a call that is inside its loop: the kernel runs on until it
\* returns or throws, nothing else is needed for a step to be taken
LoopRun == LoopTest \/ PivotTest \/ SwapRows \/ ScaleRow \/ EliminateRow

\* the calls followed to their end: the matrices of up to MaxDim rows and up
\* to MaxFairDim cols
FairMats == {m \in ElimMats : m.cols <= MaxFairDim}
NextLoopFair ==
    \/ \E kernel \in Kernels, m \in FairMats, junk \in Vals : LoopEnter(kernel, m, junk)
    \/ LoopTest
    \/ PivotTest
    \/ SwapRows
    \/ ScaleRow
    \/ EliminateRow
    \/ LoopLeave

SpecLoopFair == Init /\ [][NextLoopFair]_vars /\ WF_vars(LoopRun)

\* a pass of the pivot search that goes on searching
SearchPass == InLoop /\ ret.pc = "while" /\ ret'.op = "loop" /\ ret'.pc \in {"while", "return"}

\* a call that entered the loop leaves it, by a return or by an exception;
\* each pass of the pivot search increases the scanned row i or increases
\* lead; lead never decreases during a call
LoopTerminates ==
    /\ InLoop ~> LoopExited
    /\ [][/\ SearchPass => (ret'.i > ret.i \/ ret'.lead > ret.lead)
          /\ (InLoop /\ ret'.op = "loop") => ret'.lead >= ret.lead]_vars

\* the loop test is evaluated with all rows processed (r = rows) or with lead
\* at cols or beyond it
AtLoopEnd == InLoop /\ ret.pc = "for" /\ (ret.r >= M.rows \/ ret.lead >= M.cols)

\* C25: the elimination loop of rref(), rref(other) and det() terminates for
\* every matrix: a call that entered the loop leaves it; each pass of the
\* pivot search increases the scanned row i or increases lead; lead never
\* decreases during a call; and the loop exits when all rows are processed
\* (r = rows) or lead has reached cols: the loop test made then ends the loop.
C25_Terminates ==
    /\ LoopTerminates
    /\ [][AtLoopEnd => ret'.pc \in {"done", "return"}]_vars

\* C26: augmented elimination applies the same row operations to both
\* matrices: in rref(A, B) with B = eye(n), at the end of every iteration of
\* the outer row loop (and when the kernel leaves the loop) the working copies
\* satisfy (working B) * (original A) = (working A).
C26_SameRowOperations ==
    (InLoop /\ ret.kernel = "rrefAug" /\ ret.pc \in {"for", "done", "return"})
        => MatMul(B, ret.A0).mat = M.mat

\* an iteration that exchanged rows, scaled by a pivot other than 1 and
\* eliminated has ended: A = [[0,2],[1,1]], the working A is eye(2)
\* and the working B is [[-1/2, 1], [1/2, 0]]
C26_Witness ==
    /\ InLoop /\ ret.kernel = "rrefAug" /\ ret.pc = "done"
    /\ ret.A0.mat = [a \in 0..3 |-> IF a = 0 THEN Zero ELSE IF a = 1 THEN Rat(2) ELSE One]
    /\ ret.A0.rows = 2
    /\ M.mat = eye(2, 2)
    /\ B.mat = [a \in 0..3 |-> IF a = 0 THEN <<-1, 2>> ELSE IF a = 1 THEN One
                               ELSE IF a = 2 THEN <<1, 2>> ELSE Zero]

\* ------------------------------------------------------- det() on a view
\* MatTr(matrix) and SubMat(matrix, ...) run the empty Mat() and then assign
\* _matrix and the extents: _stickyComputeMask and _det of the view are never
\* written and hold what its memory held before (mask and stored).

ViewObject(v, mask, stored) == v @@ [mask |-> mask, det |-> stored]

\* det() called on a view: the mask test, the dimension test, then
\* Mat<T> matClone = this, which copies through the view's virtual at
viewDet(self, junk) ==
    IF BitSet(self.mask, ORCA_STICKY_COMPUTE_DET_MASK)
    THEN Result(self, "none", self.det, NoMat, FALSE)
    ELSE IF self.rows # self.cols
    THEN Result(self, "BadDimensions", NoVal, NoMat, FALSE)
    ELSE LET c == MatCast(self, junk) IN
           IF c.err # "none"
           THEN Result(self, c.err, NoVal, NoMat, c.oob)
           ELSE detEnd(self, detLoop(Clone(c.self), 0, 0, One, junk, c.oob))

\* M.t().det()
TrDet ==
    /\ Idle /\ Built
    /\ \E mask \in MaskBits, stored \in Vals, junk \in Vals :
         \E res \in {viewDet(ViewObject(t(M), mask, stored), junk)} :
             ret' = Call("t.det", <<mask, stored, junk>>, res)
    /\ UNCHANGED <<M, B, nsets>>

\* M.range(r1, r2, c1, c2).det()
RangeDet(r1, r2, c1, c2) ==
    /\ Idle /\ Built
    /\ \E mask \in MaskBits, stored \in Vals, junk \in Vals :
         \E res \in {IF SubMatThrows(r1, r2, c1, c2)
                     THEN Result(M, "BadDimensions", NoVal, NoMat, FALSE)
                     ELSE viewDet(ViewObject(range(M, r1, r2, c1, c2), mask, stored),
                                  junk)} :
             ret' = Call("range.det", <<mask, stored, junk, r1, r2, c1, c2>>, res)
    /\ UNCHANGED <<M, B, nsets>>

\* row / column bounds of a range that stays inside M
RowIn == IF Built THEN 0..(M.rows - 1) ELSE {}
ColIn == IF Built THEN 0..(M.cols - 1) ELSE {}

NextViewDet ==
    \/ \E rows \in ListDims, cols \in ListDims : ConstructList(rows, cols, FALSE)
    \/ \E row \in RowIdx, col \in ColIdx, elem \in Vals : Set(row, col, elem)
    \/ Det
    \/ TrDet
    \/ \E r1 \in RowIn, r2 \in RowIn, c1 \in ColIn, c2 \in ColIn : RangeDet(r1, r2, c1, c2)
    \/ Return

SpecViewDet == Init /\ [][NextViewDet]_vars

\* the view a det() step was called on, as the constructors leave it when
\* the memory of the view holds mask and stored
ViewOf(call, mask, stored) ==
    IF call.op = "t.det"
    THEN ViewObject(t(M), mask, stored)
    ELSE ViewObject(range(M, call.args[4], call.args[5], call.args[6], call.args[7]),
                    mask, stored)

\* C27: a freshly created view t(M) or range(...) of M starts with no
\* quantity Valid, so det() on it gives what the elimination gives on the
\* viewed elements (the value, or the exception, of a det() that finds the
\* determinant bit clear), never a value stored by no det() call on that view.
C27_ViewsStartInvalid ==
    (ret.op \in {"t.det", "range.det"}
       /\ ~(ret.op = "range.det"
              /\ SubMatThrows(ret.args[4], ret.args[5], ret.args[6], ret.args[7])))
        => \E fresh \in {viewDet(ViewOf(ret, 0, ret.args[2]), ret.args[3])} :
              /\ ret.err = fresh.err
              /\ ret.val = fresh.val

\* ------------------------------------------------ the matrix inv() returns
\* inv() returns *this->_inv by value: the members of the MatInv are copied,
\* so the returned Mat points to the buffer of the cached inverse. Its mask is
\* what MatInv::_allocate left unwritten.
Returned(out, mask) ==
    [rows |-> out.rows, cols |-> out.cols, mat |-> out.mat,
     mask |-> mask, det |-> Uninit, inv |-> Uninit]

\* I.set(row, col, elem) on I = self.inv(): the store goes to the buffer I and
\* *self._inv share
setReturned(self, I, row, col, elem) ==
    [set(I, row, col, elem) EXCEPT
        !.arg = IF AddressThrows(I, row, col)
                THEN self
                ELSE [self EXCEPT !.inv = Store(I, row, col, elem).mat]]

\* Mat<T> I = M.inv(); I.set(row, col, elem), the first call being the last step
SetReturned(row, col, elem) ==
    /\ ret.op = "inv" /\ ret.err = "none"
    /\ nsets < MaxSets
    /\ \E mask \in MaskBits :
         \E res \in {setReturned(M, Returned(ret.out, mask), row, col, elem)} :
             /\ M' = res.arg
             /\ B' = res.self
             /\ ret' = Call("inv.set", <<row, col, elem>>, res)
             /\ nsets' = IF res.err = "none" THEN nsets + 1 ELSE nsets

\* M.inv() once more, the caller still holding I
InvAgain ==
    /\ ret.op = "inv.set"
    /\ \E junk \in Vals : \E res \in {inv(M, junk)} :
             /\ M' = res.self
             /\ ret' = Call("inv.again", <<>>, res)
    /\ UNCHANGED <<B, nsets>>

NextInv ==
    \/ \E rows \in Dims, cols \in Dims, type \in FillTypes : Construct(rows, cols, type)
    \/ \E rows \in ListDims, cols \in ListDims : ConstructList(rows, cols, FALSE)
    \/ Inv
    \/ \E row \in RowIdx, col \in ColIdx, elem \in Vals : SetReturned(row, col, elem)
    \/ InvAgain
    \/ Return

SpecInv == Init /\ [][NextInv]_vars

\* the inverses inv() computes from the elements of m
ComputedInv(m) ==
    {e.out.mat : e \in {x \in {rrefAug(m, MatFill(m.rows, m.cols, fill_eye).self, junk) :
                                  junk \in Vals} : x.err = "none"}}

\* C28: the matrix inv() returns does not alias the cached inverse. After a
\* set on a matrix that inv() returned, with no set on the original, inv() on
\* the original still returns the inverse computed from its elements.
C28_ReturnedInverseIsACopy ==
    (ret.op = "inv.again" /\ ret.err = "none") => ret.out.mat \in ComputedInv(M)

\* ---------------------------------------------------- scalar multiplication
\* operator*(Mat<T1> m1, T2 t2): the parameter m1 is a memberwise copy of the
\* caller's matrix, so m1._mat is the caller's buffer. The loop calls
\* m1.set(i, j, m1.at(i, j) * t2) for every element, row-major; a is the
\* number of elements done.
RECURSIVE scaleLoop(_, _, _)
scaleLoop(m1, t2, a) ==
    IF a >= m1.rows * m1.cols
    THEN m1
    ELSE scaleLoop(set(m1, a \div m1.cols, a % m1.cols,
                       RMul(at(m1, a \div m1.cols, a % m1.cols, Zero), t2)).self,
                   t2, a + 1)

\* the caller's matrix after a call that ran the loop to m1: its buffer is
\* the one the copy wrote, its mask and _det are its own
Operand(self, m1) ==
    Result([self EXCEPT !.mat = m1.mat], "none", NoVal,
           [rows |-> m1.rows, cols |-> m1.cols, mat |-> m1.mat], FALSE)

\* m1 * t2 as a call on the caller's matrix self: out is the matrix returned
mulScalar(self, t2) == Operand(self, scaleLoop(self, t2, 0))

\* operator*(T1 t2, Mat<T2> m1): return m1 * t2, m1 again a memberwise copy
scalarMul(t2, self) == mulScalar(self, t2)

\* P = M * t2
MulScalar(t2) ==
    /\ Idle /\ Built
    /\ nsets < MaxScalings
    /\ \E res \in {mulScalar(M, t2)} :
           /\ M' = res.self
           /\ ret' = Call("mulScalar", <<t2>>, res)
    /\ nsets' = nsets + 1
    /\ UNCHANGED B

\* P = t2 * M
ScalarMul(t2) ==
    /\ Idle /\ Built
    /\ nsets < MaxScalings
    /\ \E res \in {scalarMul(t2, M)} :
           /\ M' = res.self
           /\ ret' = Call("scalarMul", <<t2>>, res)
    /\ nsets' = nsets + 1
    /\ UNCHANGED B

NextScale ==
    \/ \E rows \in ListDims, cols \in ListDims : ConstructList(rows, cols, FALSE)
    \/ Det
    \/ \E t2 \in Vals : MulScalar(t2)
    \/ \E t2 \in Vals : ScalarMul(t2)
    \/ Return

SpecScale == Init /\ [][NextScale]_vars

\* C29: m * k and k * m return the matrix with element (i, j) = m.at(i, j) * k
\* and leave m unchanged: every element of m keeps its value, so a
\* determinant cached in m before the call is the determinant of its elements.
C29_ScalarMulLeavesOperand ==
    [][(Idle /\ Built /\ ret'.op \in {"mulScalar", "scalarMul"})
          => /\ ret'.out.rows = M.rows /\ ret'.out.cols = M.cols
             /\ \A a \in DOMAIN M.mat : ret'.out.mat[a] = RMul(M.mat[a], ret'.args[1])
             /\ M'.mat = M.mat
             /\ (BitSet(M'.mask, ORCA_STICKY_COMPUTE_DET_MASK)
                   => M'.det \in FreshDet(M'))]_vars

\* ------------------------------------------------------------- quaternions
\* Quaternion(real, imag1, imag2, imag3): _qVec[0..3]
Quaternion(real, imag1, imag2, imag3) == [qVec |-> <<real, imag1, imag2, imag3>>]

\* re(), i(), j(), k()
Quaternion_re(self) == self.qVec[1]
Quaternion_i(self) == self.qVec[2]
Quaternion_j(self) == self.qVec[3]
Quaternion_k(self) == self.qVec[4]

\* a == b on two components: false when either is NaN
SameValue(a, b) == a # NaN /\ b # NaN /\ a = b

\* operator==(Quaternion<T1> q1, Quaternion<T2> q2)
QuaternionEq(q1, q2) ==
    SameValue(Quaternion_re(q1), Quaternion_re(q2)) /\ SameValue(Quaternion_i(q1), Quaternion_i(q2))
        /\ SameValue(Quaternion_j(q1), Quaternion_j(q2)) /\ SameValue(Quaternion_k(q1), Quaternion_k(q2))

\* operator!=(Quaternion<T1> q1, Quaternion<T2> q2)
QuaternionNe(q1, q2) ==
    ~SameValue(Quaternion_re(q1), Quaternion_re(q2)) /\ ~SameValue(Quaternion_i(q1), Quaternion_i(q2))
        /\ ~SameValue(Quaternion_j(q1), Quaternion_j(q2)) /\ ~SameValue(Quaternion_k(q1), Quaternion_k(q2))

\* setReal(val), setI(val), setJ(val), setK(val): _qVec[0..3] = val
\* set(index, val): OutOfBoundsError when index < 0 or index > 3
Quaternion_set(self, index, val) ==
    IF (index < 0) \/ (index > 3)
    THEN Result(self, "OutOfBounds", NoVal, NoMat, FALSE)
    ELSE Result([self EXCEPT !.qVec[index + 1] = val], "none", NoVal, NoMat, FALSE)

\* operator+(Quaternion<T1> q1, Quaternion<T2> q2)
Quaternion_add(q1, q2) ==
    Quaternion(RAdd(Quaternion_re(q1), Quaternion_re(q2)),
               RAdd(Quaternion_i(q1), Quaternion_i(q2)),
               RAdd(Quaternion_j(q1), Quaternion_j(q2)),
               RAdd(Quaternion_k(q1), Quaternion_k(q2)))

\* operator-(Quaternion<T1> q1, Quaternion<T2> q2)
Quaternion_sub(q1, q2) ==
    Quaternion(RSub(Quaternion_re(q1), Quaternion_re(q2)),
               RSub(Quaternion_i(q1), Quaternion_i(q2)),
               RSub(Quaternion_j(q1), Quaternion_j(q2)),
               RSub(Quaternion_k(q1), Quaternion_k(q2)))

\* operator*(Quaternion<T1> q1, Quaternion<T2> q2)
Quaternion_mul(q1, q2) ==
    Quaternion(
        RSub(RSub(RSub(RMul(Quaternion_re(q1), Quaternion_re(q2)),
                       RMul(Quaternion_i(q1), Quaternion_i(q2))),
                  RMul(Quaternion_j(q1), Quaternion_j(q2))),
             RMul(Quaternion_k(q1), Quaternion_k(q2))),
        RSub(RAdd(RAdd(RMul(Quaternion_re(q1), Quaternion_i(q2)),
                       RMul(Quaternion_i(q1), Quaternion_re(q2))),
                  RMul(Quaternion_j(q1), Quaternion_k(q2))),
             RMul(Quaternion_k(q1), Quaternion_j(q2))),
        RAdd(RSub(RAdd(RMul(Quaternion_re(q1), Quaternion_j(q2)),
                       RMul(Quaternion_j(q1), Quaternion_re(q2))),
                  RMul(Quaternion_i(q1), Quaternion_k(q2))),
             RMul(Quaternion_k(q1), Quaternion_i(q2))),
        RAdd(RSub(RAdd(RMul(Quaternion_re(q1), Quaternion_k(q2)),
                       RMul(Quaternion_i(q1), Quaternion_j(q2))),
                  RMul(Quaternion_j(q1), Quaternion_i(q2))),
             RMul(Quaternion_k(q1), Quaternion_re(q2))))

\* operator/(Quaternion<T1> q1, Quaternion<T2> q2): qa is q2, qc is q1, qNorm
\* is |q2|^2; with qNorm = 0 the four numerators are 0 and the four
\* quotients are 0 / 0
Quaternion_div(q1, q2) ==
    LET qa0 == Quaternion_re(q2)
        qa1 == Quaternion_i(q2)
        qa2 == Quaternion_j(q2)
        qa3 == Quaternion_k(q2)
        qc0 == Quaternion_re(q1)
        qc1 == Quaternion_i(q1)
        qc2 == Quaternion_j(q1)
        qc3 == Quaternion_k(q1)
        qNorm == RAdd(RAdd(RAdd(RMul(qa0, qa0), RMul(qa1, qa1)), RMul(qa2, qa2)),
                      RMul(qa3, qa3))
    IN  IF qNorm = Zero
        THEN Quaternion(NaN, NaN, NaN, NaN)
        ELSE Quaternion(
                 RDiv(RAdd(RAdd(RAdd(RMul(qa0, qc0), RMul(qa1, qc1)), RMul(qa2, qc2)),
                           RMul(qa3, qc3)), qNorm),
                 RDiv(RAdd(RSub(RSub(RMul(qa0, qc1), RMul(qa1, qc0)), RMul(qa2, qc3)),
                           RMul(qa3, qc2)), qNorm),
                 RDiv(RSub(RAdd(RSub(RMul(qa0, qc2), RMul(qa2, qc0)), RMul(qa1, qc3)),
                           RMul(qa3, qc1)), qNorm),
                 RDiv(RSub(RAdd(RSub(RMul(qa0, qc3), RMul(qa1, qc2)), RMul(qa2, qc1)),
                           RMul(qa3, qc0)), qNorm))

Quaternions ==
    {Quaternion(real, imag1, imag2, imag3) :
        real \in Vals, imag1 \in Vals, imag2 \in Vals, imag3 \in Vals}
IsQuaternion == Built /\ "qVec" \in DOMAIN M

\* q1 = Quaternion<T>(real, imag1, imag2, imag3)
ConstructQuaternion(real, imag1, imag2, imag3) ==
    /\ Idle /\ ~Built
    /\ M' = Quaternion(real, imag1, imag2, imag3)
    /\ ret' = Call("Quaternion", <<real, imag1, imag2, imag3>>,
                   Result(NoMat, "none", NoVal, NoMat, FALSE))
    /\ UNCHANGED <<B, nsets>>

\* q1 == q2
Eq(q2) ==
    /\ Idle /\ IsQuaternion
    /\ ret' = Call("==", <<q2>>, Result(M, "none", QuaternionEq(M, q2), NoMat, FALSE))
    /\ UNCHANGED <<M, B, nsets>>

\* q1 != q2
Ne(q2) ==
    /\ Idle /\ IsQuaternion
    /\ ret' = Call("!=", <<q2>>, Result(M, "none", QuaternionNe(M, q2), NoMat, FALSE))
    /\ UNCHANGED <<M, B, nsets>>

\* the right operands of the compound assignments: quaternions with
\* components from QuaternionParts, and scalars through
\* Quaternion(T1 cast) = (cast, 0, 0, 0)
QuaternionParts == {Zero, Rat(MaxVal)}
QuaternionOperands ==
    {Quaternion(real, imag1, imag2, imag3) :
        real \in QuaternionParts, imag1 \in QuaternionParts,
        imag2 \in QuaternionParts, imag3 \in QuaternionParts}
      \cup {Quaternion(cast, Zero, Zero, Zero) : cast \in Vals}
QuaternionIdx == (-1)..4
QuaternionFinite(q) == \A c \in 1..4 : q.qVec[c] # NaN

\* M.setReal(val)
SetReal(val) ==
    /\ Idle /\ IsQuaternion
    /\ nsets < MaxSets
    /\ M' = [M EXCEPT !.qVec[1] = val]
    /\ ret' = Call("setReal", <<val>>, Result(M', "none", NoVal, NoMat, FALSE))
    /\ nsets' = nsets + 1
    /\ UNCHANGED B

\* M.setI(val)
SetI(val) ==
    /\ Idle /\ IsQuaternion
    /\ nsets < MaxSets
    /\ M' = [M EXCEPT !.qVec[2] = val]
    /\ ret' = Call("setI", <<val>>, Result(M', "none", NoVal, NoMat, FALSE))
    /\ nsets' = nsets + 1
    /\ UNCHANGED B

\* M.setJ(val)
SetJ(val) ==
    /\ Idle /\ IsQuaternion
    /\ nsets < MaxSets
    /\ M' = [M EXCEPT !.qVec[3] = val]
    /\ ret' = Call("setJ", <<val>>, Result(M', "none", NoVal, NoMat, FALSE))
    /\ nsets' = nsets + 1
    /\ UNCHANGED B

\* M.setK(val)
SetK(val) ==
    /\ Idle /\ IsQuaternion
    /\ nsets < MaxSets
    /\ M' = [M EXCEPT !.qVec[4] = val]
    /\ ret' = Call("setK", <<val>>, Result(M', "none", NoVal, NoMat, FALSE))
    /\ nsets' = nsets + 1
    /\ UNCHANGED B

\* M.set(index, val)
QuaternionSet(index, val) ==
    /\ Idle /\ IsQuaternion
    /\ nsets < MaxSets
    /\ \E res \in {Quaternion_set(M, index, val)} :
           /\ M' = res.self
           /\ ret' = Call("quaternion.set", <<index, val>>, res)
           /\ nsets' = IF res.err = "none" THEN nsets + 1 ELSE nsets
    /\ UNCHANGED B

\* M += q2
QuaternionAddAssign(q2) ==
    /\ Idle /\ IsQuaternion /\ QuaternionFinite(M)
    /\ nsets < MaxSets
    /\ M' = Quaternion_add(M, q2)
    /\ ret' = Call("quaternion+=", <<q2>>, Result(M', "none", NoVal, NoMat, FALSE))
    /\ nsets' = nsets + 1
    /\ UNCHANGED B

\* M -= q2
QuaternionSubAssign(q2) ==
    /\ Idle /\ IsQuaternion /\ QuaternionFinite(M)
    /\ nsets < MaxSets
    /\ M' = Quaternion_sub(M, q2)
    /\ ret' = Call("quaternion-=", <<q2>>, Result(M', "none", NoVal, NoMat, FALSE))
    /\ nsets' = nsets + 1
    /\ UNCHANGED B

\* M *= q2
QuaternionMulAssign(q2) ==
    /\ Idle /\ IsQuaternion /\ QuaternionFinite(M)
    /\ nsets < MaxSets
    /\ M' = Quaternion_mul(M, q2)
    /\ ret' = Call("quaternion*=", <<q2>>, Result(M', "none", NoVal, NoMat, FALSE))
    /\ nsets' = nsets + 1
    /\ UNCHANGED B

\* M /= q2
QuaternionDivAssign(q2) ==
    /\ Idle /\ IsQuaternion /\ QuaternionFinite(M)
    /\ nsets < MaxSets
    /\ M' = Quaternion_div(M, q2)
    /\ ret' = Call("quaternion/=", <<q2>>, Result(M', "none", NoVal, NoMat, FALSE))
    /\ nsets' = nsets + 1
    /\ UNCHANGED B

NextQuaternion ==
    \/ \E real \in Vals, imag1 \in Vals, imag2 \in Vals, imag3 \in Vals :
          ConstructQuaternion(real, imag1, imag2, imag3)
    \/ \E val \in Vals : SetReal(val)
    \/ \E val \in Vals : SetI(val)
    \/ \E val \in Vals : SetJ(val)
    \/ \E val \in Vals : SetK(val)
    \/ \E index \in QuaternionIdx, val \in Vals : QuaternionSet(index, val)
    \/ \E q2 \in QuaternionOperands : QuaternionAddAssign(q2)
    \/ \E q2 \in QuaternionOperands : QuaternionSubAssign(q2)
    \/ \E q2 \in QuaternionOperands : QuaternionMulAssign(q2)
    \/ \E q2 \in QuaternionOperands : QuaternionDivAssign(q2)
    \/ \E q2 \in Quaternions : Eq(q2)
    \/ \E q2 \in Quaternions : Ne(q2)
    \/ Return

SpecQuaternion == Init /\ [][NextQuaternion]_vars

\* C30: q1 != q2 is the negation of q1 == q2: it holds exactly when at least
\* one of the four components differs.
C30_NeIsNotEq ==
    (ret.op = "!=")
        => /\ ret.val = ~QuaternionEq(M, ret.args[1])
           /\ ret.val = (\E c \in 1..4 : M.qVec[c] # ret.args[1].qVec[c])

====
